---- MODULE Spec2Model ----
(***************************************************************************)
(* A model of the YouTube Intelligence MCP server: the tool registry and   *)
(* its two entry points (list_tools, call_tool), the three tool handlers,  *)
(* the YouTube service that issues the provider calls and normalizes the   *)
(* raw records, and the response formatter.  The emoji glyphs of the        *)
(* display templates are left out of the texts.                            *)
(*                                                                         *)
(* Python strings are TLA+ strings (TLC evaluates Len, \o and SubSeq on    *)
(* them), dicts are records whose DOMAIN is the set of keys present, and   *)
(* lists are sequences.  The provider (the YouTube Data API client), the   *)
(* host-metrics library and the Python runtime are the environment: what   *)
(* they return, and whether they raise, is chosen nondeterministically.    *)
(***************************************************************************)
EXTENDS Integers, Sequences, FiniteSets, TLC

VARIABLES
    config,              \* Config class attributes read from the environment
    server_initialized,  \* mcp_server._server_initialized
    startup,             \* where main() stands: "not_started", "running", "failed"
    youtube_tools,       \* keys of mcp_server.youtube_tools, in insertion order
    pc,                  \* where the tool invocation in progress stands
    inv,                 \* locals of the invocation in progress
    ret,                 \* what the last list_tools / call_tool returned, until it
                         \* is delivered, with a record of what that invocation did
    tasks                \* the call_tool requests the transport has read, in the
                         \* order read, each with where it stands

vars == <<config, server_initialized, startup, youtube_tools, pc, inv, ret, tasks>>

(***************************************************************************)
(* Bounds of the model.                                                    *)
(***************************************************************************)
\* the provider never returns more than this many search hits
MaxVideos == 3

(***************************************************************************)
(* Program constants.                                                      *)
(***************************************************************************)
SEARCH_DEFAULT_MAX_RESULTS == 10
SEARCH_MAX_RESULTS_CAP == 50
API_MAX_RESULTS == 50
DETAILS_BATCH_SIZE == 50
MARKET_DEFAULT_SAMPLE_SIZE == 50
MARKET_SAMPLE_SIZE_CAP == 100
MARKET_DEFAULT_TIMEFRAME_DAYS == 30
MAX_VIDEOS_PER_SEARCH == 50

(***************************************************************************)
(* Python helpers.                                                         *)
(***************************************************************************)
\* dict.get(key, default)
Get(d, k, default) == IF k \in DOMAIN d THEN d[k] ELSE default

Min(a, b) == IF a <= b THEN a ELSE b

\* s[i], 1-based
Char(s, i) == SubSeq(s, i, i)

\* s.startswith(p)
StartsWith(s, p) == Len(s) >= Len(p) /\ SubSeq(s, 1, Len(p)) = p

\* p in s, for strings
Contains(s, p) ==
    \E i \in 1..(Len(s) - Len(p) + 1) : SubSeq(s, i, i + Len(p) - 1) = p

IsDigit(c) == c \in {"0", "1", "2", "3", "4", "5", "6", "7", "8", "9"}

DigitVal(c) ==
    CASE c = "0" -> 0 [] c = "1" -> 1 [] c = "2" -> 2 [] c = "3" -> 3
      [] c = "4" -> 4 [] c = "5" -> 5 [] c = "6" -> 6 [] c = "7" -> 7
      [] c = "8" -> 8 [] c = "9" -> 9

RECURSIVE DecimalValue(_)
\* the number a string of digits denotes
DecimalValue(s) ==
    IF Len(s) = 0 THEN 0
    ELSE 10 * DecimalValue(SubSeq(s, 1, Len(s) - 1)) + DigitVal(Char(s, Len(s)))

AllDigits(s) == Len(s) > 0 /\ \A i \in 1..Len(s) : IsDigit(Char(s, i))

\* int(s) for a string s: [ok, val]; ok = FALSE stands for ValueError
PyInt(s) ==
    IF AllDigits(s) THEN [ok |-> TRUE, val |-> DecimalValue(s)]
    ELSE [ok |-> FALSE, val |-> 0]

LowerChar(c) ==
    CASE c = "A" -> "a" [] c = "B" -> "b" [] c = "C" -> "c" [] c = "D" -> "d"
      [] c = "E" -> "e" [] c = "F" -> "f" [] c = "G" -> "g" [] c = "H" -> "h"
      [] c = "I" -> "i" [] c = "J" -> "j" [] c = "K" -> "k" [] c = "L" -> "l"
      [] c = "M" -> "m" [] c = "N" -> "n" [] c = "O" -> "o" [] c = "P" -> "p"
      [] c = "Q" -> "q" [] c = "R" -> "r" [] c = "S" -> "s" [] c = "T" -> "t"
      [] c = "U" -> "u" [] c = "V" -> "v" [] c = "W" -> "w" [] c = "X" -> "x"
      [] c = "Y" -> "y" [] c = "Z" -> "z" [] OTHER -> c

RECURSIVE Lower(_)
\* s.lower()
Lower(s) ==
    IF Len(s) = 0 THEN ""
    ELSE IF Len(s) = 1 THEN LowerChar(Char(s, 1))
    ELSE LET half == Len(s) \div 2
         IN  Lower(SubSeq(s, 1, half)) \o Lower(SubSeq(s, half + 1, Len(s)))

RECURSIVE JoinWith(_, _)
\* sep.join(parts)
JoinWith(sep, parts) ==
    IF Len(parts) = 0 THEN ""
    ELSE IF Len(parts) = 1 THEN parts[1]
    ELSE LET half == Len(parts) \div 2
         IN  JoinWith(sep, SubSeq(parts, 1, half)) \o sep
                 \o JoinWith(sep, SubSeq(parts, half + 1, Len(parts)))

RECURSIVE QuoteAll(_)
QuoteAll(names) ==
    IF Len(names) = 0 THEN <<>>
    ELSE <<"'" \o names[1] \o "'">> \o QuoteAll(Tail(names))

\* str(list_of_strings)
PyListRepr(names) == "[" \o JoinWith(", ", QuoteAll(names)) \o "]"

(***************************************************************************)
(* Python's None, and exact fractions for Python floats that are quotients *)
(* of integers.                                                            *)
(***************************************************************************)
None == [py_none |-> TRUE]

IsNone(x) == "py_none" \in DOMAIN x

RECURSIVE GCD(_, _)
GCD(a, b) == IF b = 0 THEN a ELSE GCD(b, a % b)

\* the fraction n/d (n >= 0, d > 0) in lowest terms
Frac(n, d) == [num |-> n \div GCD(n, d), den |-> d \div GCD(n, d)]

FracAdd(a, b) == Frac(a.num * b.den + b.num * a.den, a.den * b.den)

FracGreater(a, b) == a.num * b.den > b.num * a.den

(***************************************************************************)
(* config.py                                                               *)
(***************************************************************************)
REQUIRED_VARS == <<"YOUTUBE_API_KEY", "FIREBASE_PROJECT_ID", "ANTHROPIC_API_KEY">>

\* os.getenv of a credential: unset (None, written "") or set
CredentialValues == {"", "secret-1"}

Configs == [ {REQUIRED_VARS[i] : i \in 1..Len(REQUIRED_VARS)} -> CredentialValues ]

\* bool(value) of a credential
Truthy(value) == value # ""

\* Config.validate_config: the variables missing, in order; it raises
\* ValueError when there is one
MissingVars(cfg) ==
    SelectSeq(REQUIRED_VARS, LAMBDA var : ~Truthy(cfg[var]))

\* the validation looking at the YouTube key alone
ValidateConfigRaises_youtube_only(cfg) == ~Truthy(cfg["YOUTUBE_API_KEY"])

ValidateConfigRaises(cfg) == Len(MissingVars(cfg)) > 0

(***************************************************************************)
(* models/youtube_models.py                                                *)
(***************************************************************************)
\* VideoStats.engagement_rate
\* the rate counting the likes alone
engagement_rate_likes_only(stats) ==
    IF stats.view_count = 0 THEN Frac(0, 1)
    ELSE Frac(stats.like_count, stats.view_count)

engagement_rate(stats) ==
    IF stats.view_count = 0 THEN Frac(0, 1)
    ELSE Frac(stats.like_count + stats.comment_count, stats.view_count)

RECURSIVE SumRates(_, _)
\* the sum of the rates of the set, each taken as many times as rates holds it
SumRates(rates, distinct) ==
    IF distinct = {} THEN Frac(0, 1)
    ELSE LET r == CHOOSE x \in distinct : TRUE
             times == Cardinality({i \in 1..Len(rates) : rates[i] = r})
         IN  FracAdd(Frac(r.num * times, r.den), SumRates(rates, distinct \ {r}))

\* sum(video.stats.engagement_rate for video in videos), the equal rates
\* added together first
SumEngagement(videos) ==
    LET rates == [i \in 1..Len(videos) |-> engagement_rate(videos[i].stats)]
    IN  SumRates(rates, {rates[i] : i \in 1..Len(rates)})

\* SearchResult.average_engagement
average_engagement(videos) ==
    IF Len(videos) = 0 THEN Frac(0, 1)
    ELSE LET total == SumEngagement(videos)
         IN  Frac(total.num, total.den * Len(videos))

\* the SearchQuery the two search tools build
SearchQuery(query, max_results, order, region_code, published_after) ==
    [query |-> query, max_results |-> max_results, region_code |-> region_code,
     language |-> "en", published_after |-> published_after, order |-> order]

SearchResult(query, videos, total_results) ==
    [query |-> query, videos |-> videos, total_results |-> total_results]

(***************************************************************************)
(* services/youtube_service.py: normalizing one raw record.                *)
(***************************************************************************)
RECURSIVE ScanDigits(_, _)
\* the first position at or after i of s that holds no digit
ScanDigits(s, i) ==
    IF i <= Len(s) /\ IsDigit(Char(s, i)) THEN ScanDigits(s, i + 1) ELSE i

RECURSIVE ParseUnits(_, _, _, _)
\* The optional "<digits><unit>" groups of an ISO-8601 period, in the order
\* of units (pairs <<unit letter, seconds>>), read from position i of s:
\* the position reached and the seconds read so far.
ParseUnits(s, i, units, acc) ==
    IF Len(units) = 0 THEN [pos |-> i, secs |-> acc]
    ELSE LET j == ScanDigits(s, i)
         IN  IF j > i /\ j <= Len(s) /\ Char(s, j) = units[1][1]
             THEN ParseUnits(s, j + 1, Tail(units),
                             acc + DecimalValue(SubSeq(s, i, j - 1)) * units[1][2])
             ELSE ParseUnits(s, i, Tail(units), acc)

\* int(isodate.parse_duration(s).total_seconds()) for periods of whole weeks,
\* days, hours, minutes and seconds (P[nW][nD][T[nH][nM][nS]]); any other
\* string is malformed: ok = FALSE stands for the ISO8601Error it raises.
parse_duration(s) ==
    IF Len(s) < 2 \/ Char(s, 1) # "P" THEN [ok |-> FALSE, secs |-> 0]
    ELSE LET date == ParseUnits(s, 2, << <<"W", 604800>>,
                                         <<"D", 86400>> >>, 0)
         IN  IF date.pos > Len(s) THEN [ok |-> TRUE, secs |-> date.secs]
             ELSE IF Char(s, date.pos) # "T" THEN [ok |-> FALSE, secs |-> 0]
             ELSE LET time == ParseUnits(s, date.pos + 1,
                                  << <<"H", 3600>>,
                                     <<"M", 60>>,
                                     <<"S", 1>> >>, date.secs)
                  IN  IF time.pos > Len(s) THEN [ok |-> TRUE, secs |-> time.secs]
                      ELSE [ok |-> FALSE, secs |-> 0]

\* the positions of "YYYY-MM-DDTHH:MM:SSZ" that hold a digit
TimestampDigitPositions == {1, 2, 3, 4, 6, 7, 9, 10, 12, 13, 15, 16, 18, 19}

\* datetime.fromisoformat(s.replace('Z', '+00:00')) for the provider's
\* timestamps, "YYYY-MM-DDTHH:MM:SSZ": ok = FALSE stands for ValueError
ParseTimestamp(s) ==
    IF /\ Len(s) = 20
       /\ \A i \in TimestampDigitPositions : IsDigit(Char(s, i))
       /\ Char(s, 5) = "-" /\ Char(s, 8) = "-" /\ Char(s, 11) = "T"
       /\ Char(s, 14) = ":" /\ Char(s, 17) = ":" /\ Char(s, 20) = "Z"
    THEN [ok |-> TRUE,
          value |-> [date |-> SubSeq(s, 1, 10), time |-> SubSeq(s, 12, 19),
                     tzinfo |-> "+00:00"]]
    ELSE [ok |-> FALSE, value |-> None]

AnyWordIn(words, content) == \E w \in words : Contains(content, w)

\* the categories tried with gaming ahead of education
categorize_video_gaming_first(title, description) ==
    LET content == Lower(title \o " " \o description)
    IN  IF AnyWordIn({"game", "gaming", "play"}, content)
        THEN "gaming"
        ELSE IF AnyWordIn({"tutorial", "learn", "education", "course"}, content)
        THEN "education"
        ELSE IF AnyWordIn({"tech", "programming", "software", "ai"}, content)
        THEN "technology"
        ELSE IF AnyWordIn({"music", "song", "album"}, content)
        THEN "music"
        ELSE IF AnyWordIn({"news", "breaking", "report"}, content)
        THEN "news"
        ELSE IF AnyWordIn({"sport", "football", "basketball"}, content)
        THEN "sports"
        ELSE "other"

\* YouTubeService._categorize_video
categorize_video(title, description) ==
    LET content == Lower(title \o " " \o description)
    IN  IF AnyWordIn({"tutorial", "learn", "education", "course"}, content)
        THEN "education"
        ELSE IF AnyWordIn({"tech", "programming", "software", "ai"}, content)
        THEN "technology"
        ELSE IF AnyWordIn({"game", "gaming", "play"}, content)
        THEN "gaming"
        ELSE IF AnyWordIn({"music", "song", "album"}, content)
        THEN "music"
        ELSE IF AnyWordIn({"news", "breaking", "report"}, content)
        THEN "news"
        ELSE IF AnyWordIn({"sport", "football", "basketball"}, content)
        THEN "sports"
        ELSE "other"

\* int(statistics.get(key, 0))
StatCount(statistics, key) ==
    IF key \in DOMAIN statistics THEN PyInt(statistics[key])
    ELSE [ok |-> TRUE, val |-> 0]

\* YouTubeService._parse_video_item: the VideoData, or None when any step
\* of the body raises (the except clause logs and returns None)
parse_video_item(item) ==
    IF "snippet" \notin DOMAIN item THEN None
    ELSE
    LET snippet == item.snippet
        statistics == Get(item, "statistics", << >>)
        content_details == Get(item, "contentDetails", << >>)
        duration_str == Get(content_details, "duration", "PT0S")
        duration == parse_duration(duration_str)
        views == StatCount(statistics, "viewCount")
        likes == StatCount(statistics, "likeCount")
        comments == StatCount(statistics, "commentCount")
    IN  IF ~duration.ok THEN None
        ELSE IF ~(views.ok /\ likes.ok /\ comments.ok) THEN None
        ELSE IF "publishedAt" \notin DOMAIN snippet THEN None
        ELSE IF ~ParseTimestamp(snippet.publishedAt).ok THEN None
        ELSE IF "id" \notin DOMAIN item THEN None
        ELSE IF ~({"title", "channelId", "channelTitle"} \subseteq DOMAIN snippet)
        THEN None
        ELSE [video_id |-> item.id,
              title |-> snippet.title,
              description |-> Get(snippet, "description", ""),
              channel_id |-> snippet.channelId,
              channel_title |-> snippet.channelTitle,
              published_at |-> ParseTimestamp(snippet.publishedAt).value,
              duration |-> duration_str,
              category |-> categorize_video(Get(snippet, "title", ""),
                                            Get(snippet, "description", "")),
              stats |-> [view_count |-> views.val,
                         like_count |-> likes.val,
                         comment_count |-> comments.val,
                         duration_seconds |-> duration.secs],
              tags |-> Get(snippet, "tags", << >>)]

RECURSIVE ParseItems_stop_at_failure(_)
\* the loop leaving at the first record that does not parse
ParseItems_stop_at_failure(items) ==
    IF Len(items) = 0 THEN << >>
    ELSE LET video == parse_video_item(items[1])
         IN  IF IsNone(video) THEN << >>
             ELSE <<video>> \o ParseItems_stop_at_failure(Tail(items))

\* the loop of YouTubeService._fetch_video_batch over video_response['items']:
\* the records that parse, in the provider's order
ParseItems(items) ==
    SelectSeq([k \in 1..Len(items) |-> parse_video_item(items[k])],
              LAMBDA video : ~IsNone(video))

(***************************************************************************)
(* Number formatting.                                                      *)
(***************************************************************************)
\* n as exactly k decimal digits (n < 10^k)
RECURSIVE ZeroPad(_, _)
ZeroPad(n, k) ==
    IF k = 0 THEN "" ELSE ZeroPad(n \div 10, k - 1) \o ToString(n % 10)

RECURSIVE Commas(_)
\* f"{n:,}" for n >= 0
Commas(n) ==
    IF n < 1000 THEN ToString(n)
    ELSE Commas(n \div 1000) \o "," \o ZeroPad(n % 1000, 3)

\* round(x) of the fraction num/den >= 0 to the nearest integer, ties to even
RoundFrac(num, den) ==
    LET q == num \div den
        r == num % den
    IN  IF 2 * r > den \/ (2 * r = den /\ q % 2 = 1) THEN q + 1 ELSE q

\* f"{x:.2%}" for the fraction x >= 0.  (On a tie at the third decimal the
\* float's binary expansion decides in Python; here the tie goes to even.)
Percent2(x) ==
    LET h == RoundFrac(x.num * 10000, x.den)
    IN  ToString(h \div 100) \o "." \o ZeroPad(h % 100, 2) \o "%"

(***************************************************************************)
(* tools/video_search_tool.py                                              *)
(***************************************************************************)
\* _format_youtube_timestamp(days_ago): the instant "now - days_ago days",
\* kept symbolic
format_youtube_timestamp(days_ago) == "utcnow-" \o ToString(days_ago) \o "d"

\* the SearchQuery carrying the max_results asked for as it is
VideoSearchQuery_unclamped(arguments) ==
    SearchQuery(Get(arguments, "query", ""),
                Get(arguments, "max_results", SEARCH_DEFAULT_MAX_RESULTS),
                Get(arguments, "order", "relevance"),
                Get(arguments, "region_code", "US"),
                IF "published_after_days" \notin DOMAIN arguments THEN None
                ELSE format_youtube_timestamp(arguments.published_after_days))

\* VideoSearchTool.call, lines 58-79: the SearchQuery built from the arguments
VideoSearchQuery(arguments) ==
    SearchQuery(Get(arguments, "query", ""),
                Min(Get(arguments, "max_results", SEARCH_DEFAULT_MAX_RESULTS),
                    SEARCH_MAX_RESULTS_CAP),
                Get(arguments, "order", "relevance"),
                Get(arguments, "region_code", "US"),
                IF "published_after_days" \notin DOMAIN arguments THEN None
                ELSE format_youtube_timestamp(arguments.published_after_days))

\* lines 102-114: the projection of one video
VideoProjection(video) ==
    [title |-> video.title,
     channel |-> video.channel_title,
     views |-> video.stats.view_count,
     likes |-> video.stats.like_count,
     comments |-> video.stats.comment_count,
     engagement_rate |-> Percent2(engagement_rate(video.stats)),
     published |-> video.published_at.date,
     duration |-> video.duration,
     category |-> video.category,
     url |-> "https://youtube.com/watch?v=" \o video.video_id,
     description_snippet |-> ""]

\* the response whose average over no video is the quotient 0.0 / 0
VideoSearchSuccess_nan_average(arguments, results) ==
    [success |-> TRUE,
     query |-> Get(arguments, "query", ""),
     total_results |-> results.total_results,
     videos_found |-> Len(results.videos),
     average_engagement |-> IF Len(results.videos) = 0 THEN "nan%"
                            ELSE Percent2(average_engagement(results.videos)),
     search_parameters |->
        [order |-> Get(arguments, "order", "relevance"),
         region_code |-> Get(arguments, "region_code", "US"),
         max_results |-> Min(Get(arguments, "max_results", SEARCH_DEFAULT_MAX_RESULTS),
                             SEARCH_MAX_RESULTS_CAP),
         published_after_days |-> Get(arguments, "published_after_days", None)],
     videos |-> [i \in 1..Len(results.videos) |-> VideoProjection(results.videos[i])]]

\* VideoSearchTool.call, lines 84-117: the response for the results of the search
VideoSearchSuccess(arguments, results) ==
    [success |-> TRUE,
     query |-> Get(arguments, "query", ""),
     total_results |-> results.total_results,
     videos_found |-> Len(results.videos),
     average_engagement |-> Percent2(average_engagement(results.videos)),
     search_parameters |->
        [order |-> Get(arguments, "order", "relevance"),
         region_code |-> Get(arguments, "region_code", "US"),
         max_results |-> Min(Get(arguments, "max_results", SEARCH_DEFAULT_MAX_RESULTS),
                             SEARCH_MAX_RESULTS_CAP),
         published_after_days |-> Get(arguments, "published_after_days", None)],
     videos |-> [i \in 1..Len(results.videos) |-> VideoProjection(results.videos[i])]]

\* VideoSearchTool.call, lines 119-125: the except clause
VideoSearchFailure(exc) ==
    [success |-> FALSE, error |-> exc, message |-> "Failed to search videos"]

(***************************************************************************)
(* Ordering and dates, for the pandas operations of the market analysis.   *)
(***************************************************************************)
\* the characters of the model's strings, in code-point order
Alphabet == " -0123456789:ABCDEFGHIJKLMNOPQRSTUVWXYZabcdefghijklmnopqrstuvwxyz"

CharCode(c) == CHOOSE i \in 1..Len(Alphabet) : Char(Alphabet, i) = c

RECURSIVE StrLess(_, _)
\* a < b for Python strings
StrLess(a, b) ==
    IF Len(b) = 0 THEN FALSE
    ELSE IF Len(a) = 0 THEN TRUE
    ELSE IF Char(a, 1) # Char(b, 1) THEN CharCode(Char(a, 1)) < CharCode(Char(b, 1))
    ELSE StrLess(SubSeq(a, 2, Len(a)), SubSeq(b, 2, Len(b)))

\* sorted(S) for a set of strings: the i-th is the one with i - 1 smaller
SortStrings(S) ==
    [i \in 1..Cardinality(S) |->
        CHOOSE a \in S : Cardinality({b \in S : StrLess(b, a)}) = i - 1]

RECURSIVE SumSeq(_)
SumSeq(ns) ==
    IF Len(ns) = 0 THEN 0
    ELSE IF Len(ns) = 1 THEN ns[1]
    ELSE LET half == Len(ns) \div 2
         IN  SumSeq(SubSeq(ns, 1, half)) + SumSeq(SubSeq(ns, half + 1, Len(ns)))

RECURSIVE LargestIndices(_, _, _)
\* the index order of DataFrame.nlargest(k, column) (keep='first'): the k
\* largest keys, equal keys in their original order
LargestIndices(keys, chosen, k) ==
    LET left == (1..Len(keys)) \ chosen
    IN  IF k = 0 \/ left = {} THEN << >>
        ELSE LET i == CHOOSE a \in left :
                        \A b \in left \ {a} :
                            keys[a] > keys[b] \/ (keys[a] = keys[b] /\ a < b)
             IN  <<i>> \o LargestIndices(keys, chosen \cup {i}, k - 1)

\* days from 1970-01-01 to the civil date y-m-d
DaysFromCivil(y, m, d) ==
    LET yy == IF m <= 2 THEN y - 1 ELSE y
        era == yy \div 400
        yoe == yy - era * 400
        mp == (m + 9) % 12
        doy == (153 * mp + 2) \div 5 + d - 1
        doe == yoe * 365 + yoe \div 4 - yoe \div 100 + doy
    IN  era * 146097 + doe - 719468

\* seconds from the epoch of a parsed UTC timestamp
EpochSeconds(t) ==
    DaysFromCivil(DecimalValue(SubSeq(t.date, 1, 4)),
                  DecimalValue(SubSeq(t.date, 6, 7)),
                  DecimalValue(SubSeq(t.date, 9, 10))) * 86400
    + DecimalValue(SubSeq(t.time, 1, 2)) * 3600
    + DecimalValue(SubSeq(t.time, 4, 5)) * 60
    + DecimalValue(SubSeq(t.time, 7, 8))

(***************************************************************************)
(* tools/market_analysis_tool.py                                           *)
(***************************************************************************)
\* MarketAnalysisTool.call, lines 49-62: the SearchQuery built from the arguments
MarketSearchQuery(arguments) ==
    SearchQuery(Get(arguments, "topic", ""),
                Min(Get(arguments, "sample_size", MARKET_DEFAULT_SAMPLE_SIZE),
                    MARKET_SAMPLE_SIZE_CAP),
                "viewCount",
                "US",
                format_youtube_timestamp(
                    Get(arguments, "timeframe_days", MARKET_DEFAULT_TIMEFRAME_DAYS)))

HIGH_COMPETITION_CHANNELS == 30
MEDIUM_COMPETITION_CHANNELS == 15

\* line 150
\* the label with the upper threshold taken inclusively
competition_level_inclusive(unique_channels) ==
    IF unique_channels >= HIGH_COMPETITION_CHANNELS THEN "High"
    ELSE IF unique_channels > MEDIUM_COMPETITION_CHANNELS THEN "Medium"
    ELSE "Low"

competition_level(unique_channels) ==
    IF unique_channels > HIGH_COMPETITION_CHANNELS THEN "High"
    ELSE IF unique_channels > MEDIUM_COMPETITION_CHANNELS THEN "Medium"
    ELSE "Low"

\* the columns of the DataFrame
Views(videos) == [i \in 1..Len(videos) |-> videos[i].stats.view_count]

Channels(videos) == {videos[i].channel_title : i \in 1..Len(videos)}

\* df['views'].std() > df['views'].mean(): the sample standard deviation
\* (n - 1 in the denominator; NaN for one row, and NaN > x is False),
\* compared through the squares, both sides being >= 0
HighVariance(videos) ==
    LET n == Len(videos)
        total == SumSeq(Views(videos))
        squares == SumSeq([i \in 1..n |-> Views(videos)[i] * Views(videos)[i]])
    IN  n > 1 /\ n * (n * squares - total * total) > (n - 1) * total * total

\* df[df['engagement_rate'] > 0.05]
HighEngagement(videos) ==
    SelectSeq(videos, LAMBDA v : FracGreater(engagement_rate(v.stats), Frac(5, 100)))

TRENDING_WINDOW_DAYS == 7

\* df[df['published'] > cutoff_date], cutoff_date = now - 7 days
RecentVideos(videos, now) ==
    SelectSeq(videos, LAMBDA v :
        EpochSeconds(v.published_at)
            > EpochSeconds(now) - TRENDING_WINDOW_DAYS * 86400)

\* the insights of a sample, an exception in the upload-timing block
\* discarding the whole list
generate_market_insights_fault_drops_all(videos, level, now, timing_raises) ==
    LET high == HighEngagement(videos)
        minutes == SumSeq([i \in 1..Len(high) |-> high[i].stats.duration_seconds])
                       \div (Len(high) * 60)
    IN  IF timing_raises THEN << >>
        ELSE
        (IF HighVariance(videos)
         THEN <<"High variance in video performance - opportunity for viral content">>
         ELSE << >>)
        \o (IF Len(high) > 0
            THEN <<"High-engagement videos average " \o ToString(minutes)
                     \o " minutes duration">>
            ELSE << >>)
        \o (IF level = "Low"
            THEN <<"Low competition - good opportunity to establish authority">>
            ELSE IF level = "High"
            THEN <<"High competition - focus on unique angle or underserved subtopics">>
            ELSE << >>)
        \o (IF 10 * Len(RecentVideos(videos, now)) > 3 * Len(videos)
            THEN <<"High recent activity - trending topic with immediate opportunity">>
            ELSE << >>)

\* MarketAnalysisTool._generate_market_insights; timing_raises: a statement of
\* the try block of the upload-timing insight (lines 202-219) raises, which
\* the except clause swallows
generate_market_insights(videos, level, now, timing_raises) ==
    LET high == HighEngagement(videos)
        minutes == SumSeq([i \in 1..Len(high) |-> high[i].stats.duration_seconds])
                       \div (Len(high) * 60)
    IN  (IF HighVariance(videos)
         THEN <<"High variance in video performance - opportunity for viral content">>
         ELSE << >>)
        \o (IF Len(high) > 0
            THEN <<"High-engagement videos average " \o ToString(minutes)
                     \o " minutes duration">>
            ELSE << >>)
        \o (IF level = "Low"
            THEN <<"Low competition - good opportunity to establish authority">>
            ELSE IF level = "High"
            THEN <<"High competition - focus on unique angle or underserved subtopics">>
            ELSE << >>)
        \o (IF ~timing_raises
               /\ 10 * Len(RecentVideos(videos, now)) > 3 * Len(videos)
            THEN <<"High recent activity - trending topic with immediate opportunity">>
            ELSE << >>)

\* one row of channel_performance, as the top_channels entry made of it
ChannelEntry(videos, channel) ==
    LET own == SelectSeq(videos, LAMBDA v : v.channel_title = channel)
        total == SumSeq(Views(own))
        engagement == average_engagement(own)
    IN  [channel |-> channel,
         total_views |-> total,
         avg_views |-> RoundFrac(total * 100, Len(own)) \div 100,
         video_count |-> Len(own),
         avg_engagement |->
            Percent2(Frac(RoundFrac(engagement.num * 100, engagement.den), 100))]

TOP_N == 5

\* MarketAnalysisTool._analyze_market_data; sentiment is the formatted mean
\* TextBlob polarity of the titles and now the clock, both read from the
\* environment, as is timing_raises
analyze_market_data(videos, sentiment, now, timing_raises) ==
    LET total_views == SumSeq(Views(videos))
        top == LargestIndices(Views(videos), {}, TOP_N)
        groups == SortStrings(Channels(videos))
        entries == [i \in 1..Len(groups) |-> ChannelEntry(videos, groups[i])]
        top_groups == LargestIndices([i \in 1..Len(groups) |-> entries[i].total_views],
                                     {}, TOP_N)
        unique_channels == Cardinality(Channels(videos))
        level == competition_level(unique_channels)
    IN  [market_overview |->
            [total_views |-> total_views,
             average_views |-> total_views \div Len(videos),
             average_engagement_rate |-> Percent2(average_engagement(videos)),
             unique_creators |-> unique_channels,
             competition_level |-> level,
             market_sentiment |-> sentiment],
         top_performing_videos |->
            [i \in 1..Len(top) |-> [title |-> videos[top[i]].title,
                                    views |-> videos[top[i]].stats.view_count,
                                    channel |-> videos[top[i]].channel_title]],
         top_channels |-> [i \in 1..Len(top_groups) |-> entries[top_groups[i]]],
         insights |-> generate_market_insights(videos, level, now, timing_raises)]

\* the no-video result with a fixed message
MarketNoVideos_no_topic(arguments) ==
    [success |-> FALSE, message |-> "No videos found"]

\* MarketAnalysisTool.call, lines 66-70: no video found
MarketNoVideos(arguments) ==
    [success |-> FALSE,
     message |-> "No videos found for topic: " \o Get(arguments, "topic", "")]

\* MarketAnalysisTool.call, lines 72-81
MarketSuccess(arguments, results, sentiment, now, timing_raises) ==
    [success |-> TRUE,
     topic |-> Get(arguments, "topic", ""),
     timeframe_days |-> Get(arguments, "timeframe_days", MARKET_DEFAULT_TIMEFRAME_DAYS),
     videos_analyzed |-> Len(results.videos),
     analysis |-> analyze_market_data(results.videos, sentiment, now, timing_raises)]

\* MarketAnalysisTool.call, lines 83-89: the except clause
MarketFailure(exc) ==
    [success |-> FALSE, error |-> exc, message |-> "Failed to analyze market"]

(***************************************************************************)
(* tools/system_status_tool.py                                             *)
(***************************************************************************)
\* SystemStatusTool._check_api_status
\* the api status showing the YouTube key itself when it is set
check_api_status_shows_key(cfg) ==
    [youtube_api |-> IF Truthy(cfg["YOUTUBE_API_KEY"])
                     THEN cfg["YOUTUBE_API_KEY"] ELSE "not_configured",
     firebase |-> IF Truthy(cfg["FIREBASE_PROJECT_ID"])
                  THEN "configured" ELSE "not_configured",
     claude_api |-> IF Truthy(cfg["ANTHROPIC_API_KEY"])
                    THEN "configured" ELSE "not_configured"]

check_api_status(cfg) ==
    [youtube_api |-> IF Truthy(cfg["YOUTUBE_API_KEY"])
                     THEN "configured" ELSE "not_configured",
     firebase |-> IF Truthy(cfg["FIREBASE_PROJECT_ID"])
                  THEN "configured" ELSE "not_configured",
     claude_api |-> IF Truthy(cfg["ANTHROPIC_API_KEY"])
                    THEN "configured" ELSE "not_configured"]

\* SystemStatusTool._get_system_metrics: the psutil readings, or the error
\* object when a reading raises (metrics = None)
get_system_metrics(metrics) ==
    IF IsNone(metrics) THEN [error |-> "Unable to retrieve system metrics"]
    ELSE metrics

\* SystemStatusTool.call, lines 40-53: the basic status
BasicStatus(cfg, timestamp, uptime) ==
    [server_name |-> "youtube-intelligence",
     version |-> "1.0.0",
     timestamp |-> timestamp,
     status |-> "healthy",
     uptime_seconds |-> uptime,
     configuration |->
        [youtube_api_configured |-> Truthy(cfg["YOUTUBE_API_KEY"]),
         firebase_configured |-> Truthy(cfg["FIREBASE_PROJECT_ID"]),
         claude_api_configured |-> Truthy(cfg["ANTHROPIC_API_KEY"]),
         output_directory |-> "output",
         max_videos_per_search |-> MAX_VIDEOS_PER_SEARCH]]

\* dict | extra keys
Extend(d, e) ==
    [k \in DOMAIN d \cup DOMAIN e |-> IF k \in DOMAIN e THEN e[k] ELSE d[k]]

\* the handler failing as a whole when a psutil reading raises
SystemStatusResult_metrics_fault_fails(cfg, include_detailed, timestamp, uptime, metrics) ==
    IF include_detailed /\ IsNone(metrics)
    THEN [success |-> FALSE, error |-> "psutil error",
          message |-> "Failed to get system status"]
    ELSE [success |-> TRUE,
          status |-> IF include_detailed
                     THEN Extend(BasicStatus(cfg, timestamp, uptime),
                                 [system_metrics |-> get_system_metrics(metrics),
                                  api_status |-> check_api_status(cfg)])
                     ELSE BasicStatus(cfg, timestamp, uptime)]

\* SystemStatusTool.call, lines 55-63
SystemStatusResult(cfg, include_detailed, timestamp, uptime, metrics) ==
    [success |-> TRUE,
     status |-> IF include_detailed
                THEN Extend(BasicStatus(cfg, timestamp, uptime),
                            [system_metrics |-> get_system_metrics(metrics),
                             api_status |-> check_api_status(cfg)])
                ELSE BasicStatus(cfg, timestamp, uptime)]

(***************************************************************************)
(* mcp_server.py: the response formatter.                                  *)
(***************************************************************************)
PyBool(b) == IF b THEN "True" ELSE "False"

\* str(result) of a handler's result dict, abridged to its first key
ResultRepr(result) == "{'success': " \o PyBool(result.success) \o ", ...}"

\* the bullet glyph the templates start their list lines with
BULLET == "* "

SHOWN_VIDEOS == 10

\* the lines of format_video_search_response for one video (lines 145-154)
VideoLines(i, video) ==
    << ToString(i) \o ". **" \o video.title \o "**",
       "   Channel: " \o video.channel,
       "   Views: " \o Commas(video.views) \o " | Likes: " \o Commas(video.likes)
           \o " | Comments: " \o Commas(video.comments),
       "   Engagement: " \o video.engagement_rate
           \o " | Published: " \o video.published,
       "   Duration: " \o video.duration \o " | Category: " \o video.category,
       "   URL: " \o video.url,
       "" >>

RECURSIVE Flatten(_)
Flatten(seqs) ==
    IF Len(seqs) = 0 THEN << >>
    ELSE IF Len(seqs) = 1 THEN seqs[1]
    ELSE LET half == Len(seqs) \div 2
         IN  Flatten(SubSeq(seqs, 1, half)) \o Flatten(SubSeq(seqs, half + 1, Len(seqs)))

format_video_search_response(result) ==
    LET videos == SubSeq(result.videos, 1, Min(Len(result.videos), SHOWN_VIDEOS))
    IN  JoinWith("\n",
            << "**YouTube Video Search Results**",
               "Query: " \o result.query,
               "Found: " \o ToString(result.videos_found) \o " videos",
               "Average Engagement: " \o result.average_engagement,
               "" >>
            \o Flatten([i \in 1..Len(videos) |-> VideoLines(i, videos[i])]))

SHOWN_TOP == 5

format_market_analysis_response(result) ==
    LET overview == result.analysis.market_overview
        top_videos == result.analysis.top_performing_videos
        top_channels == result.analysis.top_channels
        insights == result.analysis.insights
        shown_videos == SubSeq(top_videos, 1, Min(Len(top_videos), SHOWN_TOP))
        shown_channels == SubSeq(top_channels, 1, Min(Len(top_channels), SHOWN_TOP))
    IN  JoinWith("\n",
            << "**Market Analysis Results**",
               "Topic: " \o result.topic,
               "Videos Analyzed: " \o ToString(result.videos_analyzed),
               "Timeframe: " \o ToString(result.timeframe_days) \o " days",
               "",
               "**Market Overview**",
               BULLET \o "Total Views: " \o Commas(overview.total_views),
               BULLET \o "Average Views: " \o Commas(overview.average_views),
               BULLET \o "Average Engagement: " \o overview.average_engagement_rate,
               BULLET \o "Unique Creators: " \o ToString(overview.unique_creators),
               BULLET \o "Competition Level: " \o overview.competition_level,
               BULLET \o "Market Sentiment: " \o overview.market_sentiment,
               "" >>
            \o (IF Len(top_videos) > 0
                THEN <<"**Top Performing Videos**">>
                     \o [i \in 1..Len(shown_videos) |->
                            ToString(i) \o ". " \o shown_videos[i].title \o " - "
                            \o Commas(shown_videos[i].views) \o " views ("
                            \o shown_videos[i].channel \o ")"]
                     \o <<"">>
                ELSE << >>)
            \o (IF Len(top_channels) > 0
                THEN <<"**Top Channels**">>
                     \o [i \in 1..Len(shown_channels) |->
                            ToString(i) \o ". " \o shown_channels[i].channel \o " - "
                            \o Commas(shown_channels[i].total_views)
                            \o " total views ("
                            \o ToString(shown_channels[i].video_count) \o " videos)"]
                     \o <<"">>
                ELSE << >>)
            \o (IF Len(insights) > 0
                THEN <<"**Key Insights**">>
                     \o [i \in 1..Len(insights) |-> BULLET \o insights[i]]
                ELSE << >>))

Configured(flag) == IF flag THEN "Configured" ELSE "Not Configured"

format_system_status_response(result) ==
    LET status == result.status
        cfg == status.configuration
        metrics == Get(status, "system_metrics", << >>)
    IN  JoinWith("\n",
            << "**" \o status.server_name \o " System Status**",
               "Version: " \o status.version,
               "Status: " \o status.status,
               "Timestamp: " \o status.timestamp,
               "",
               "**Configuration**",
               BULLET \o "YouTube API: " \o Configured(cfg.youtube_api_configured),
               BULLET \o "Firebase: " \o Configured(cfg.firebase_configured),
               BULLET \o "Claude API: " \o Configured(cfg.claude_api_configured),
               BULLET \o "Max Videos Per Search: "
                   \o ToString(cfg.max_videos_per_search),
               "" >>
            \o (IF DOMAIN metrics # {} /\ "error" \notin DOMAIN metrics
                THEN << "**System Metrics**",
                        BULLET \o "CPU Usage: " \o metrics.cpu_percent \o "%",
                        BULLET \o "Memory Usage: " \o metrics.memory_percent \o "%",
                        BULLET \o "Disk Usage: " \o metrics.disk_usage_percent \o "%" >>
                ELSE << >>))

\* a template that raises reported as a failure of the tool
format_tool_response_masks_success(tool_name, result, template_raises) ==
    IF template_raises /\ tool_name \in {"search_videos", "analyze_market", "system_status"}
    THEN "Tool execution failed: response formatting failed"
    ELSE IF tool_name = "search_videos" THEN format_video_search_response(result)
    ELSE IF tool_name = "analyze_market" THEN format_market_analysis_response(result)
    ELSE IF tool_name = "system_status" THEN format_system_status_response(result)
    ELSE "Results from " \o tool_name \o ":\n" \o ResultRepr(result)

\* format_tool_response; template_raises: the template selected raises
format_tool_response(tool_name, result, template_raises) ==
    IF template_raises /\ tool_name \in {"search_videos", "analyze_market", "system_status"}
    THEN "Tool executed successfully but response formatting failed: "
             \o ResultRepr(result)
    ELSE IF tool_name = "search_videos" THEN format_video_search_response(result)
    ELSE IF tool_name = "analyze_market" THEN format_market_analysis_response(result)
    ELSE IF tool_name = "system_status" THEN format_system_status_response(result)
    ELSE "Results from " \o tool_name \o ":\n" \o ResultRepr(result)

(***************************************************************************)
(* mcp_server.py: the registry and its two entry points.                   *)
(***************************************************************************)
\* the keys of youtube_tools, in insertion order (lines 35-39)
RegisteredTools == <<"search_videos", "analyze_market", "system_status">>

\* tool_instance.name and .description, as each tool's __init__ sets them
ToolDescriptor(key) ==
    CASE key = "search_videos" ->
            [name |-> "search_videos",
             description |-> "Search YouTube videos with detailed analysis and insights"]
      [] key = "analyze_market" ->
            [name |-> "analyze_market",
             description |->
                "Analyze YouTube market trends and competition for specific topics"]
      [] key = "system_status" ->
            [name |-> "system_status",
             description |->
                "Get YouTube Intelligence MCP Server system status and health metrics"]

\* list_tools without its check of the initialization flag
list_tools_unguarded(initialized, tools) ==
    [i \in 1..Len(tools) |-> ToolDescriptor(tools[i])]

\* list_tools
list_tools(initialized, tools) ==
    IF ~initialized THEN << >>
    ELSE [i \in 1..Len(tools) |-> ToolDescriptor(tools[i])]

TextContent(text) == [type |-> "text", text |-> text]

\* what call_tool hands back: the list it returns, or the exception it lets through
Returns(text) == [raised |-> FALSE, content |-> <<TextContent(text)>>]

Raises(exc) == [raised |-> TRUE, content |-> << >>, exc |-> exc]

Keys(tools) == {tools[i] : i \in 1..Len(tools)}

\* call_tool without its lookup check: youtube_tools[name] raises KeyError,
\* which the except clause reports
CallToolRejection_no_lookup(initialized, tools, name) ==
    IF ~initialized
    THEN Returns("Error: " \o "Server not yet initialized. "
                     \o "Please wait for initialization to complete.")
    ELSE IF name \notin Keys(tools)
    THEN Returns("Error executing tool '" \o name \o "': '" \o name \o "'")
    ELSE None

\* call_tool with its two checks in the other order
CallToolRejection_lookup_first(initialized, tools, name) ==
    IF name \notin Keys(tools)
    THEN Returns("Error: " \o "Tool '" \o name \o "' not found. Available tools: "
                     \o PyListRepr(tools))
    ELSE IF ~initialized
    THEN Returns("Error: " \o "Server not yet initialized. "
                     \o "Please wait for initialization to complete.")
    ELSE None

\* call_tool, lines 78-96: the two checks before dispatch; None when the call
\* goes on to the handler
CallToolRejection(initialized, tools, name) ==
    IF ~initialized
    THEN Returns("Error: " \o "Server not yet initialized. "
                     \o "Please wait for initialization to complete.")
    ELSE IF name \notin Keys(tools)
    THEN Returns("Error: " \o "Tool '" \o name \o "' not found. Available tools: "
                     \o PyListRepr(tools))
    ELSE None

\* the outcomes of "await tool_instance.call(arguments)"
Returned(result) == [raised |-> FALSE, result |-> result]

Raised(exc) == [raised |-> TRUE, exc |-> exc]

\* call_tool without its except clause: the handler's exception goes through
CallToolReturn_no_except(name, outcome, template_raises) ==
    IF outcome.raised
    THEN Raises(outcome.exc)
    ELSE IF Get(outcome.result, "success", FALSE)
    THEN Returns(format_tool_response(name, outcome.result, template_raises))
    ELSE Returns("Tool execution failed: "
                     \o Get(outcome.result, "message", "Unknown error"))

\* call_tool reporting a handler's failure result like its own rejections
CallToolReturn_error_prefix(name, outcome, template_raises) ==
    IF outcome.raised
    THEN Returns("Error executing tool '" \o name \o "': " \o outcome.exc)
    ELSE IF Get(outcome.result, "success", FALSE)
    THEN Returns(format_tool_response(name, outcome.result, template_raises))
    ELSE Returns("Error: " \o Get(outcome.result, "message", "Unknown error"))

\* call_tool, lines 100-113: from the handler's outcome to the return value
CallToolReturn(name, outcome, template_raises) ==
    IF outcome.raised
    THEN Returns("Error executing tool '" \o name \o "': " \o outcome.exc)
    ELSE IF Get(outcome.result, "success", FALSE)
    THEN Returns(format_tool_response(name, outcome.result, template_raises))
    ELSE Returns("Tool execution failed: "
                     \o Get(outcome.result, "message", "Unknown error"))

(***************************************************************************)
(* The environment: the callers' requests, the provider's answers, the     *)
(* clock, the host metrics and the faults of the runtime.                  *)
(***************************************************************************)
\* the three registered names and one that is not registered
ToolNames == {"search_videos", "analyze_market", "system_status", "get_channel_info"}

EmptyDict == [k \in {} |-> ""]

ArgumentsSet ==
    { EmptyDict,
      [query |-> "python tutorial", max_results |-> 2],
      [query |-> "python tutorial", max_results |-> 60, order |-> "date",
       published_after_days |-> 7],
      [topic |-> "ai tools", sample_size |-> 120, timeframe_days |-> 7],
      [include_detailed |-> TRUE],
      [include_detailed |-> FALSE] }

\* raw records of the provider's videos.list, before their id is set
RawGood ==
    [snippet |-> [title |-> "Python Tutorial Game", description |-> "Learn fast",
                  channelId |-> "UC1", channelTitle |-> "Chan A",
                  publishedAt |-> "2024-01-18T10:00:00Z"],
     statistics |-> [viewCount |-> "1000", likeCount |-> "50", commentCount |-> "10"],
     contentDetails |-> [duration |-> "PT2M30S"]]

\* neither statistics nor contentDetails
RawBare ==
    [snippet |-> [title |-> "Summer Song", channelId |-> "UC2",
                  channelTitle |-> "Chan B",
                  publishedAt |-> "2023-12-01T08:30:00Z"]]

\* a duration that is no ISO-8601 period
RawBadDuration ==
    [snippet |-> [title |-> "Breaking Report", description |-> "",
                  channelId |-> "UC3", channelTitle |-> "Chan C",
                  publishedAt |-> "2024-01-19T09:00:00Z"],
     statistics |-> [viewCount |-> "4000", likeCount |-> "10", commentCount |-> "2"],
     contentDetails |-> [duration |-> "2:30"]]

\* no publish time
RawNoPublishedAt ==
    [snippet |-> [title |-> "Football", channelId |-> "UC2",
                  channelTitle |-> "Chan B"],
     statistics |-> [viewCount |-> "7"],
     contentDetails |-> [duration |-> "PT1H"]]

RawKinds == {RawGood, RawBare, RawBadDuration, RawNoPublishedAt}

\* the i-th video id of a search response
VideoId(i) == "v" \o ToString(i)

WithId(kind, id) == Extend(kind, [id |-> id])

\* the provider's totalResults: the number of hits returned, or many more
TotalResults(n) == {n, n + 1000000}

\* str(e) of an exception of the provider client
ProviderErrors == {"<HttpError 403 quotaExceeded>"}

\* str(e) of an exception that escapes a handler
HandlerErrors == {"handler crashed"}

ClockReadings == {[date |-> "2024-01-20", time |-> "12:00:00", tzinfo |-> "+00:00"]}

\* f"{avg_sentiment:.2f}" of the TextBlob polarities
Sentiments == {"0.00", "-0.13"}

\* psutil.boot_time(), or 0.0 when it raises
Uptimes == {"1700000000.0", "0.0"}

\* the psutil readings of _get_system_metrics; None: a reading raises
MetricsReadings ==
    { None,
      [cpu_percent |-> "12.5", memory_percent |-> "40.1",
       disk_usage_percent |-> "71.0", process_count |-> "212",
       network_connections |-> "18"] }

\* the inputs a handler reads from the environment when it finishes
FinishEnvs ==
    [template_raises : BOOLEAN, sentiment : Sentiments, now : ClockReadings,
     timing_raises : BOOLEAN]

(***************************************************************************)
(* The state machine.                                                      *)
(***************************************************************************)
NoCall == [op |-> "none"]

Init ==
    /\ config \in Configs
    /\ server_initialized = FALSE
    /\ startup = "not_started"
    /\ youtube_tools = RegisteredTools
    /\ pc = "idle"
    /\ inv = None
    /\ ret = NoCall
    /\ tasks = << >>

\* the record of a completed call_tool: what it returned, the handler it ran
\* ("none" when it ran none), the external calls made, the SearchResult the
\* service returned (None when it returned none) and the handler's result
\* (None when no handler returned one)
Completed(name, arguments, returned, handler, calls, results, result) ==
    [op |-> "call_tool", name |-> name, arguments |-> arguments,
     raised |-> returned.raised, content |-> returned.content,
     handler |-> handler, calls |-> calls, results |-> results, result |-> result]

\* initialize_server, as main() runs it once
InitializeServer ==
    /\ startup = "not_started"
    /\ pc = "idle"
    /\ IF ValidateConfigRaises(config)
       THEN /\ startup' = "failed"
            /\ UNCHANGED server_initialized
       ELSE /\ server_initialized' = TRUE
            /\ startup' = "running"
    /\ UNCHANGED <<config, youtube_tools, pc, inv, ret>>

\* the event loop taken to be free while a handler waits for an external call
LoopIdle_between_external_calls ==
    /\ pc \in {"idle", "search", "details", "metrics"}
    /\ ret = NoCall

\* the event loop is free to run a request handler: no handler holds it and
\* the last return value was written. call_tool awaits tool_instance.call
\* alone (line 100) and no handler awaits anything, the external calls being
\* blocking calls, so a handler holds the loop from dispatch to return
LoopIdle ==
    /\ pc = "idle"
    /\ ret = NoCall

\* list_tools marking the server initialized when it is first asked
ListTools_marks_initialized ==
    /\ LoopIdle
    /\ server_initialized' = TRUE
    /\ ret' = [op |-> "list_tools", tools |-> list_tools(TRUE, youtube_tools)]
    /\ UNCHANGED <<config, startup, youtube_tools, pc, inv>>

\* list_tools
ListTools ==
    /\ LoopIdle
    /\ ret' = [op |-> "list_tools",
               tools |-> list_tools(server_initialized, youtube_tools)]
    /\ UNCHANGED <<config, server_initialized, startup, youtube_tools, pc, inv>>

\* call_tool returning at one of its two checks before dispatch
CallToolRejected(name, arguments) ==
    /\ LoopIdle
    /\ ~IsNone(CallToolRejection(server_initialized, youtube_tools, name))
    /\ ret' = Completed(name, arguments,
                        CallToolRejection(server_initialized, youtube_tools, name),
                        "none", << >>, None, None)
    /\ UNCHANGED <<config, server_initialized, startup, youtube_tools, pc, inv>>

\* call_tool whose handler lets an exception through (none of the three
\* registered handlers does: each catches Exception itself)
CallToolHandlerRaises(name, arguments, exc) ==
    /\ LoopIdle
    /\ IsNone(CallToolRejection(server_initialized, youtube_tools, name))
    /\ ret' = Completed(name, arguments, CallToolReturn(name, Raised(exc), FALSE),
                        name, << >>, None, None)
    /\ UNCHANGED <<config, server_initialized, startup, youtube_tools, pc, inv>>

\* the handler's result once the search is over, and what call_tool returns
FinishSearch(name, arguments, results, calls, env) ==
    \E result \in
          { IF name = "search_videos" THEN VideoSearchSuccess(arguments, results)
            ELSE IF Len(results.videos) = 0 THEN MarketNoVideos(arguments)
            ELSE MarketSuccess(arguments, results, env.sentiment, env.now,
                               env.timing_raises) } :
        /\ ret' = Completed(name, arguments,
                            CallToolReturn(name, Returned(result), env.template_raises),
                            name, calls, results, result)
        /\ pc' = "idle"
        /\ inv' = None

\* call_tool dispatching to search_videos or analyze_market, up to the
\* provider's search().list().execute()
CallSearchTool(name, arguments) ==
    /\ LoopIdle
    /\ IsNone(CallToolRejection(server_initialized, youtube_tools, name))
    /\ name \in {"search_videos", "analyze_market"}
    /\ LET query == IF name = "search_videos" THEN VideoSearchQuery(arguments)
                    ELSE MarketSearchQuery(arguments)
       IN  inv' = [name |-> name, arguments |-> arguments, query |-> query,
                   calls |-> <<[api |-> "search.list",
                                maxResults |-> Min(query.max_results, API_MAX_RESULTS),
                                outcome |-> "pending"]>>,
                   video_ids |-> << >>, total_results |-> 0, i |-> 0,
                   videos |-> << >>]
    /\ pc' = "search"
    /\ UNCHANGED <<config, server_initialized, startup, youtube_tools, ret>>

SetOutcome(calls, outcome) == [calls EXCEPT ![Len(calls)].outcome = outcome]

\* the last call returned items
SetReturned(calls, items) ==
    [calls EXCEPT ![Len(calls)] = Extend(@, [outcome |-> "returned", items |-> items])]

\* ids[i:i+50]
Batch(ids, i) == SubSeq(ids, i + 1, Min(i + DETAILS_BATCH_SIZE, Len(ids)))

DetailsCall(ids, i) == [api |-> "videos.list", ids |-> Batch(ids, i), outcome |-> "pending"]

\* search().list().execute() returns n hits: search_videos lines 58-63, up
\* to the first videos().list().execute(), or to the end when there is no hit
SearchResponse(n, total, env) ==
    LET video_ids == [k \in 1..n |-> VideoId(k)]
        calls == SetOutcome(inv.calls, "returned")
    IN  IF Len(video_ids) = 0
        THEN /\ FinishSearch(inv.name, inv.arguments,
                             SearchResult(inv.query, << >>, total), calls, env)
        ELSE /\ inv' = [inv EXCEPT !.video_ids = video_ids,
                                   !.total_results = total,
                                   !.calls = calls \o <<DetailsCall(video_ids, 0)>>]
             /\ pc' = "details"
             /\ UNCHANGED ret

\* the provider returns n hits, no more than the maxResults asked for, and
\* reports total matches
SearchReturns(n, total, env) ==
    /\ pc = "search"
    /\ n \in 0..Min(inv.calls[1].maxResults, MaxVideos)
    /\ total \in TotalResults(n)
    /\ SearchResponse(n, total, env)
    /\ UNCHANGED <<config, server_initialized, startup, youtube_tools>>

\* the handler giving the search up before search().list().execute() is back
SearchFails_gives_up(exc) ==
    /\ pc = "search"
    /\ LET result == IF inv.name = "search_videos" THEN VideoSearchFailure(exc)
                     ELSE MarketFailure(exc)
       IN  ret' = Completed(inv.name, inv.arguments,
                            CallToolReturn(inv.name, Returned(result), FALSE),
                            inv.name, inv.calls, None, result)
    /\ pc' = "idle"
    /\ inv' = None
    /\ UNCHANGED <<config, server_initialized, startup, youtube_tools>>

\* search().list().execute() raises: search_videos re-raises and the
\* handler's except clause makes the failure result
SearchFails(exc) ==
    /\ pc = "search"
    /\ LET result == IF inv.name = "search_videos" THEN VideoSearchFailure(exc)
                     ELSE MarketFailure(exc)
       IN  ret' = Completed(inv.name, inv.arguments,
                            CallToolReturn(inv.name, Returned(result), FALSE),
                            inv.name, SetOutcome(inv.calls, "raised"), None, result)
    /\ pc' = "idle"
    /\ inv' = None
    /\ UNCHANGED <<config, server_initialized, startup, youtube_tools>>

\* _get_video_details asking once more for a batch whose request raised
AfterBatch_retry_failed(batch_videos, calls, env) ==
    IF calls[Len(calls)].outcome = "raised" /\ Len(calls) < 3
    THEN /\ inv' = [inv EXCEPT !.calls = calls \o <<DetailsCall(inv.video_ids, inv.i)>>]
         /\ UNCHANGED <<pc, ret>>
    ELSE FinishSearch(inv.name, inv.arguments,
                      SearchResult(inv.query, inv.videos \o batch_videos,
                                   inv.total_results),
                      calls, env)

\* the rest of _get_video_details after a batch gave batch_videos: the next
\* videos().list().execute(), or the end of the search
AfterBatch(batch_videos, calls, env) ==
    LET videos == inv.videos \o batch_videos
        next == inv.i + DETAILS_BATCH_SIZE
    IN  IF next < Len(inv.video_ids)
        THEN /\ inv' = [inv EXCEPT !.videos = videos, !.i = next,
                                   !.calls = calls \o <<DetailsCall(inv.video_ids, next)>>]
             /\ UNCHANGED <<pc, ret>>
        ELSE FinishSearch(inv.name, inv.arguments,
                          SearchResult(inv.query, videos, inv.total_results),
                          calls, env)

\* videos().list().execute() returns one raw record per id asked for:
\* _fetch_video_batch lines 110-116
DetailsReturn(kinds, env) ==
    /\ pc = "details"
    /\ DOMAIN kinds = 1..Len(Batch(inv.video_ids, inv.i))
    /\ LET ids == Batch(inv.video_ids, inv.i)
           items == [k \in 1..Len(ids) |-> WithId(kinds[k], ids[k])]
       IN  \E batch_videos \in {ParseItems(items)} :
              AfterBatch(batch_videos, SetReturned(inv.calls, items), env)
    /\ UNCHANGED <<config, server_initialized, startup, youtube_tools>>

\* videos().list().execute() raises: _fetch_video_batch lines 118-120
DetailsFails(env) ==
    /\ pc = "details"
    /\ AfterBatch(<< >>, SetOutcome(inv.calls, "raised"), env)
    /\ UNCHANGED <<config, server_initialized, startup, youtube_tools>>

\* utcnow().isoformat() + 'Z'
StatusTimestamp(now) == now.date \o "T" \o now.time \o "Z"

\* call_tool dispatching to system_status, up to the psutil readings when
\* the detailed metrics are asked for, to the end otherwise
CallSystemStatus(arguments, now, uptime, template_raises) ==
    /\ LoopIdle
    /\ IsNone(CallToolRejection(server_initialized, youtube_tools, "system_status"))
    /\ IF Get(arguments, "include_detailed", FALSE)
       THEN /\ inv' = [name |-> "system_status", arguments |-> arguments,
                       timestamp |-> StatusTimestamp(now), uptime |-> uptime,
                       calls |-> <<[api |-> "psutil", outcome |-> "pending"]>>]
            /\ pc' = "metrics"
            /\ UNCHANGED ret
       ELSE LET result == SystemStatusResult(config, FALSE, StatusTimestamp(now),
                                             uptime, None)
            IN  /\ ret' = Completed("system_status", arguments,
                                    CallToolReturn("system_status", Returned(result),
                                                   template_raises),
                                    "system_status", << >>, None, result)
                /\ UNCHANGED <<pc, inv>>
    /\ UNCHANGED <<config, server_initialized, startup, youtube_tools>>

\* the psutil readings come back (metrics = None: one of them raised)
MetricsReturn(metrics, template_raises) ==
    /\ pc = "metrics"
    /\ LET result == SystemStatusResult(config, TRUE, inv.timestamp, inv.uptime, metrics)
       IN  ret' = Completed("system_status", inv.arguments,
                            CallToolReturn("system_status", Returned(result),
                                           template_raises),
                            "system_status",
                            SetOutcome(inv.calls,
                                       IF IsNone(metrics) THEN "raised" ELSE "returned"),
                            None, result)
    /\ pc' = "idle"
    /\ inv' = None
    /\ UNCHANGED <<config, server_initialized, startup, youtube_tools>>

\* the transport writes the return value of the last list_tools / call_tool
\* to the client; the next request is read after that
DeliverResponse ==
    /\ pc = "idle"
    /\ ret # NoCall
    /\ ret' = NoCall
    /\ UNCHANGED <<config, server_initialized, startup, youtube_tools, pc, inv>>

\* the requests come one after the other here: none waits in tasks
Next ==
    \/ InitializeServer /\ UNCHANGED tasks
    \/ DeliverResponse /\ UNCHANGED tasks
    \/ ListTools /\ UNCHANGED tasks
    \/ \E name \in ToolNames, arguments \in ArgumentsSet :
          \/ CallToolRejected(name, arguments) /\ UNCHANGED tasks
          \/ CallSearchTool(name, arguments) /\ UNCHANGED tasks
          \/ \E exc \in HandlerErrors :
                CallToolHandlerRaises(name, arguments, exc) /\ UNCHANGED tasks
    \/ \E arguments \in ArgumentsSet, now \in ClockReadings, uptime \in Uptimes,
          template_raises \in BOOLEAN :
          CallSystemStatus(arguments, now, uptime, template_raises) /\ UNCHANGED tasks
    \/ \E env \in FinishEnvs :
          \/ \E n \in 0..MaxVideos : \E total \in TotalResults(n) :
                SearchReturns(n, total, env) /\ UNCHANGED tasks
          \/ \E kinds \in UNION {[1..k -> RawKinds] : k \in 1..MaxVideos} :
                DetailsReturn(kinds, env) /\ UNCHANGED tasks
          \/ DetailsFails(env) /\ UNCHANGED tasks
    \/ \E exc \in ProviderErrors : SearchFails(exc) /\ UNCHANGED tasks
    \/ \E metrics \in MetricsReadings, template_raises \in BOOLEAN :
          MetricsReturn(metrics, template_raises) /\ UNCHANGED tasks

Spec == Init /\ [][Next]_vars

(***************************************************************************)
(* Properties.                                                             *)
(***************************************************************************)
NOT_READY_TEXT ==
    "Error: Server not yet initialized. Please wait for initialization to complete."

\* the text of a completed call_tool
Text(r) == r.content[1].text

\* the completed call_tool was turned away before dispatch
Rejected(r) == r.op = "call_tool" /\ r.handler = "none"

\* the handler of the completed call_tool let an exception through
HandlerRaised(r) == r.op = "call_tool" /\ r.handler # "none" /\ IsNone(r.result)

\* the handler of the completed call_tool returned a failure result
HandlerFailed(r) ==
    r.op = "call_tool" /\ ~IsNone(r.result) /\ ~Get(r.result, "success", FALSE)

\* ---- C1 ----
\* C1: every list_tools call returns the empty sequence while the
\* initialization flag is false, and exactly the three descriptors named
\* search_videos, analyze_market, system_status once it is true, whatever
\* calls came before.
C1_ListToolsFollowsFlag ==
    [][ (ret.op = "none" /\ ret'.op = "list_tools") =>
            IF server_initialized
            THEN /\ Len(ret'.tools) = 3
                 /\ [i \in 1..3 |-> ret'.tools[i].name]
                      = <<"search_videos", "analyze_market", "system_status">>
            ELSE ret'.tools = << >> ]_vars

\* a listing made after initialization
C1_Witness ==
    ret.op = "list_tools" /\ server_initialized /\ Len(ret.tools) = 3

\* ---- C2 ----
\* C2: after initialization, call_tool with a name that is not registered
\* returns (does not raise) one text that starts with "Error: " and names all
\* three registered tools, and runs no handler and no external call.
C2_UnknownToolRejected ==
    [][ ( /\ ret.op = "none"
          /\ ret'.op = "call_tool"
          /\ server_initialized
          /\ ret'.name \notin Keys(youtube_tools) ) =>
            /\ ~ret'.raised
            /\ Len(ret'.content) = 1
            /\ ret'.content[1].type = "text"
            /\ StartsWith(Text(ret'), "Error: ")
            /\ \A known \in {"search_videos", "analyze_market", "system_status"} :
                  Contains(Text(ret'), "'" \o known \o "'")
            /\ ret'.handler = "none"
            /\ ret'.calls = << >>
            /\ pc' = "idle" ]_vars

\* an unregistered name turned away after initialization
C2_Witness ==
    /\ server_initialized
    /\ Rejected(ret)
    /\ ret.name = "get_channel_info"
    /\ Contains(Text(ret), "not found. Available tools: ")

\* ---- C3 ----
\* C3: while the initialization flag is false, call_tool returns the
\* not-ready text for every name, registered or not, and every arguments
\* mapping, and runs no handler and no external call.
C3_NotReadyFirst ==
    (ret.op = "call_tool" /\ ~server_initialized) =>
        /\ ~ret.raised
        /\ ret.content = <<TextContent(NOT_READY_TEXT)>>
        /\ ret.handler = "none"
        /\ ret.calls = << >>
        /\ pc = "idle"

\* an unregistered name called before initialization gets the not-ready text
C3_Witness ==
    /\ ~server_initialized
    /\ Rejected(ret)
    /\ ret.name = "get_channel_info"
    /\ Text(ret) = NOT_READY_TEXT

\* ---- C4 ----
\* C4: call_tool never raises: whatever the name, the arguments and the
\* handler's outcome (a success result, a failure result, an exception of the
\* handler or of the template), it returns one text.
C4_CallToolNeverRaises ==
    ret.op = "call_tool" =>
        /\ ~ret.raised
        /\ Len(ret.content) = 1
        /\ ret.content[1].type = "text"

\* a handler raised and call_tool returned a text all the same
C4_Witness ==
    HandlerRaised(ret) /\ ~ret.raised /\ StartsWith(Text(ret), "Error executing tool '")

\* ---- C5 ----
\* C5: the initialization flag changes only from false to true and only in
\* a step of initialize_server; once true it stays true; no step of
\* list_tools or call_tool changes the flag, and no step changes the registry.
C5_FlagSetOnceByInitialize ==
    [][ /\ (server_initialized' # server_initialized =>
                /\ ~server_initialized
                /\ server_initialized'
                /\ InitializeServer)
        /\ (server_initialized => server_initialized')
        /\ ((ret' # ret \/ pc' # pc \/ inv' # inv) =>
                server_initialized' = server_initialized)
        /\ youtube_tools' = youtube_tools ]_vars

\* a handler has run to its end with the flag set
C5_Witness ==
    /\ server_initialized
    /\ ret.op = "call_tool"
    /\ ret.handler # "none"
    /\ youtube_tools = RegisteredTools

\* ---- C6 ----
\* C6 as stated: every failed call_tool (not ready, unknown tool, failure
\* result of the handler, exception of the handler) returns a text that starts
\* with "Tool execution failed: ".
C6_Original ==
    (Rejected(ret) \/ HandlerRaised(ret) \/ HandlerFailed(ret)) =>
        StartsWith(Text(ret), "Tool execution failed: ")

\* C6 as amended: a failure result of the handler is returned as
\* "Tool execution failed: <message>"; a call turned away before dispatch is
\* returned as "Error: ...", and an exception of the handler as
\* "Error executing tool '<name>': ...".
C6_FailureTexts ==
    /\ HandlerFailed(ret) =>
          Text(ret) = "Tool execution failed: "
                          \o Get(ret.result, "message", "Unknown error")
    /\ Rejected(ret) =>
          /\ StartsWith(Text(ret), "Error: ")
          /\ ~StartsWith(Text(ret), "Tool execution failed: ")
    /\ HandlerRaised(ret) =>
          StartsWith(Text(ret), "Error executing tool '" \o ret.name \o "': ")

\* a failure result of a handler, returned with the prefix
C6_Witness ==
    /\ HandlerFailed(ret)
    /\ Text(ret) = "Tool execution failed: Failed to search videos"

\* ---- C7 ----
\* C7: when the search of analyze_market returns no video, the handler returns
\* success = false with a message that contains the topic asked for, nothing
\* is raised, and the result carries no analysis.
C7_NoVideosNamesTopic ==
    ( /\ ret.op = "call_tool"
      /\ ret.name = "analyze_market"
      /\ ~IsNone(ret.results)
      /\ Len(ret.results.videos) = 0 ) =>
        /\ ~ret.raised
        /\ ~IsNone(ret.result)
        /\ ret.result.success = FALSE
        /\ Contains(ret.result.message, Get(ret.arguments, "topic", ""))
        /\ "analysis" \notin DOMAIN ret.result
        /\ Text(ret) = "Tool execution failed: " \o ret.result.message

\* a market analysis of a named topic whose search found nothing
C7_Witness ==
    /\ ret.op = "call_tool"
    /\ ret.name = "analyze_market"
    /\ ~IsNone(ret.results)
    /\ Len(ret.results.videos) = 0
    /\ Get(ret.arguments, "topic", "") = "ai tools"
    /\ ret.result.message = "No videos found for topic: ai tools"

\* the videos().list() calls of a completed call_tool that returned
ReturnedDetails(r) ==
    SelectSeq(r.calls, LAMBDA c : c.api = "videos.list" /\ c.outcome = "returned")

\* the raw records the provider returned to a completed call_tool, in order
ReturnedItems(r) ==
    Flatten([j \in 1..Len(ReturnedDetails(r)) |-> ReturnedDetails(r)[j].items])

\* ---- C8 ----
\* C8: a raw record whose duration string is malformed, and that is
\* well-formed otherwise, is normalized to a video with duration_seconds = 0
\* and its other fields taken from the raw record: it is among the videos.
C8_MalformedDurationKept ==
    (ret.op = "call_tool" /\ ~IsNone(ret.results)) =>
        \A k \in 1..Len(ReturnedItems(ret)) :
            LET item == ReturnedItems(ret)[k]
                duration == Get(Get(item, "contentDetails", EmptyDict),
                                "duration", "PT0S")
                repaired == Extend(item, [contentDetails |-> [duration |-> "PT0S"]])
                expected == parse_video_item(repaired)
            IN  (~parse_duration(duration).ok /\ ~IsNone(expected)) =>
                    \E v \in 1..Len(ret.results.videos) :
                        ret.results.videos[v] = [expected EXCEPT !.duration = duration]

\* ---- C9 ----
\* C9: the videos a search returns are the raw records that normalize, in
\* the provider's order: a record that fails is the only one dropped, and the
\* search still completes (search_videos reports success with their count).
C9_OnlyFailedRecordsDropped ==
    ( /\ ret.op = "call_tool"
      /\ ret.handler \in {"search_videos", "analyze_market"}
      /\ Len(ReturnedDetails(ret)) > 0 ) =>
        LET good == SelectSeq(ReturnedItems(ret),
                              LAMBDA item : ~IsNone(parse_video_item(item)))
        IN  /\ ~IsNone(ret.results)
            /\ [v \in 1..Len(ret.results.videos) |-> ret.results.videos[v].video_id]
                 = [g \in 1..Len(good) |-> good[g].id]
            /\ ret.name = "search_videos" =>
                  /\ ret.result.success
                  /\ ret.result.videos_found = Len(good)
                  /\ [v \in 1..Len(ret.result.videos) |-> ret.result.videos[v].url]
                       = [g \in 1..Len(good) |->
                             "https://youtube.com/watch?v=" \o good[g].id]

\* three records returned, the second alone fails, the first and third stay
C9_Witness ==
    /\ ret.op = "call_tool"
    /\ ret.name = "search_videos"
    /\ Len(ReturnedItems(ret)) = 3
    /\ ~IsNone(parse_video_item(ReturnedItems(ret)[1]))
    /\ IsNone(parse_video_item(ReturnedItems(ret)[2]))
    /\ ~IsNone(parse_video_item(ReturnedItems(ret)[3]))
    /\ ret.result.success
    /\ [v \in 1..Len(ret.results.videos) |-> ret.results.videos[v].video_id]
         = <<"v1", "v3">>

\* ---- C10 ----
\* C10: when an external fetch of a search_videos invocation fails (the
\* search call or a detail-fetch call), the handler returns success = false
\* with a message.
C10_FetchFailureFails ==
    ( /\ ret.op = "call_tool"
      /\ ret.handler = "search_videos"
      /\ \E j \in 1..Len(ret.calls) : ret.calls[j].outcome = "raised" ) =>
        /\ ~IsNone(ret.result)
        /\ ret.result.success = FALSE
        /\ "message" \in DOMAIN ret.result

\* the external calls of one invocation hold no repeated request
SameRequest(a, b) ==
    /\ a.api = b.api
    /\ a.api = "videos.list" => a.ids = b.ids

NoRepeatedRequest(calls) ==
    /\ Cardinality({j \in 1..Len(calls) : calls[j].api = "search.list"}) <= 1
    /\ \A j, k \in 1..Len(calls) :
          (j < k /\ calls[j].api = "videos.list" /\ calls[k].api = "videos.list") =>
              {calls[j].ids[x] : x \in 1..Len(calls[j].ids)}
                \cap {calls[k].ids[x] : x \in 1..Len(calls[k].ids)} = {}
    /\ \A j, k \in 1..Len(calls) :
          (j < k /\ calls[j].outcome = "raised") => ~SameRequest(calls[j], calls[k])
    /\ (Len(calls) > 0 /\ calls[1].api = "search.list" /\ calls[1].outcome = "raised")
          => Len(calls) = 1

\* ---- C11 ----
\* C11: there is no retry: within one invocation the search request is made
\* at most once, no two detail requests share an id, and a request that
\* raised is not made again; a search request that raised is the last call.
C11_NoRetries ==
    /\ pc # "idle" => NoRepeatedRequest(inv.calls)
    /\ ret.op = "call_tool" => NoRepeatedRequest(ret.calls)

\* a detail request raised and the invocation ended after that one attempt
C11_Witness ==
    /\ ret.op = "call_tool"
    /\ Len(ret.calls) = 2
    /\ ret.calls[2].api = "videos.list"
    /\ ret.calls[2].outcome = "raised"

(***************************************************************************)
(* The functions of the program applied to inputs drawn from bounded sets:  *)
(* inv holds the input, ret the value the function returned.               *)
(***************************************************************************)
MaxChannels == 32

MaxSample == 40

\* a sample of `videos` records spread over `channels` channels
Samples ==
    { s \in [videos : 1..MaxSample, channels : 1..MaxChannels] :
         /\ s.channels <= s.videos
         /\ s.videos \in {s.channels, s.channels + 1, MaxSample - 1, MaxSample} }

\* the k-th record of a sample, as _parse_video_item makes it
SampleVideo(k, channels) ==
    LET channel == ToString(((k - 1) % channels) + 1)
        snippet == [RawGood.snippet EXCEPT !.channelId = "UC" \o channel,
                                           !.channelTitle = "Chan " \o channel]
        statistics == [viewCount |-> "10", likeCount |-> "1", commentCount |-> "0"]
    IN  parse_video_item(WithId([RawGood EXCEPT !.snippet = snippet,
                                                !.statistics = statistics],
                                VideoId(k)))

\* the make-up of a sample: viral, the first video has ten times the views of
\* the others; engaged, the videos have likes; recent, the videos were
\* published two days before the clock reading, else seven weeks before
Profiles == [viral : BOOLEAN, engaged : BOOLEAN, recent : BOOLEAN]

\* the make-up of the samples made of SampleVideo
PlainProfile == [viral |-> FALSE, engaged |-> TRUE, recent |-> TRUE]

\* the samples taken in every make-up: as many channels as videos, on both
\* sides of the two thresholds of the competition level
ProfiledSamples ==
    { s \in Samples :
         /\ s.videos = s.channels
         /\ s.channels \in {1, 2, MEDIUM_COMPETITION_CHANNELS + 1,
                            HIGH_COMPETITION_CHANNELS + 1} }

\* the k-th record of a sample of a make-up, as _parse_video_item makes it
ProfiledVideo(k, s, profile) ==
    LET channel == ToString(((k - 1) % s.channels) + 1)
        snippet == [RawGood.snippet EXCEPT
                       !.channelId = "UC" \o channel,
                       !.channelTitle = "Chan " \o channel,
                       !.publishedAt = IF profile.recent
                                       THEN RawGood.snippet.publishedAt
                                       ELSE RawBare.snippet.publishedAt]
        statistics == [viewCount |-> IF profile.viral /\ k = 1 THEN "100" ELSE "10",
                       likeCount |-> IF profile.engaged THEN "1" ELSE "0",
                       commentCount |-> "0"]
    IN  parse_video_item(WithId([RawGood EXCEPT !.snippet = snippet,
                                                !.statistics = statistics],
                                VideoId(k)))

ProfiledVideos(s, profile) == [k \in 1..s.videos |-> ProfiledVideo(k, s, profile)]

\* titles and descriptions of videos
Titles ==
    { "Python TUTORIAL", "Tutorial Game", "New GAME trailer", "Tech review",
      "Summer Song", "Breaking", "Football", "Cooking pasta", "Mountain hike" }

Descriptions ==
    { "", "Learn fast", "play along", "Software", "the album", "news report",
      "basketball", "garden" }

\* the statistics block of a raw record: the provider sends the counts as
\* strings of digits
ViewCounts == {0, 1, 3, 8, 1000}

LikeCounts == {0, 1, 2, 50}

CommentCounts == {0, 1, 10}

Statistics ==
    {[viewCount |-> ToString(v), likeCount |-> ToString(l), commentCount |-> ToString(c)] :
        v \in ViewCounts, l \in LikeCounts, c \in CommentCounts}

\* os.getenv of a credential, with two values a set credential may have
SecretValues == {"", "secret-1", "secret-2"}

SecretConfigs == [ {REQUIRED_VARS[i] : i \in 1..Len(REQUIRED_VARS)} -> SecretValues ]

\* arguments of system_status
StatusArguments == {EmptyDict, [include_detailed |-> TRUE], [include_detailed |-> FALSE]}

\* results of a search: no video, one video
SearchResults ==
    { SearchResult(VideoSearchQuery(EmptyDict), << >>, 0),
      SearchResult(VideoSearchQuery(EmptyDict), <<SampleVideo(1, 1)>>, 1000001) }

\* success results of the three handlers
SearchSuccessResults == {VideoSearchSuccess(EmptyDict, r) : r \in SearchResults}

MarketSuccessResults ==
    {MarketSuccess([topic |-> "ai tools"], r, sentiment, now, timing_raises) :
        r \in {x \in SearchResults : Len(x.videos) > 0},
        sentiment \in Sentiments, now \in ClockReadings, timing_raises \in BOOLEAN}

StatusSuccessResults ==
    {SystemStatusResult(cfg, detailed, StatusTimestamp(now), uptime, metrics) :
        cfg \in Configs, detailed \in BOOLEAN, now \in ClockReadings,
        uptime \in Uptimes, metrics \in MetricsReadings}

\* the success results format_tool_response can be given for a tool name: the
\* results of that tool's handler, and any of them for a name without template
SuccessResults(tool_name) ==
    IF tool_name = "search_videos" THEN SearchSuccessResults
    ELSE IF tool_name = "analyze_market" THEN MarketSuccessResults
    ELSE IF tool_name = "system_status" THEN StatusSuccessResults
    ELSE SearchSuccessResults \cup MarketSuccessResults \cup StatusSuccessResults

FunctionInputs ==
    {[fn |-> "analyze_market_data", sample |-> s, profile |-> PlainProfile] :
        s \in Samples}
      \cup {[fn |-> "analyze_market_data", sample |-> s, profile |-> p] :
               s \in ProfiledSamples, p \in Profiles}
      \cup {[fn |-> "categorize_video", title |-> t, description |-> d] :
               t \in Titles, d \in Descriptions}
      \cup {[fn |-> "engagement_rate", statistics |-> s] : s \in Statistics}
      \cup {[fn |-> "system_status", arguments |-> a] : a \in StatusArguments}
      \cup UNION {{[fn |-> "format_tool_response", tool_name |-> n, result |-> r] :
                      r \in SuccessResults(n)} : n \in ToolNames}

\* system_status is applied under every configuration (the handler does not
\* depend on the initialization), the other functions under one
InitFunctions ==
    /\ inv \in FunctionInputs
    /\ config \in IF inv.fn = "system_status" THEN SecretConfigs
                  ELSE {c \in Configs : ~ValidateConfigRaises(c)}
    /\ server_initialized = TRUE
    /\ startup = "running"
    /\ youtube_tools = RegisteredTools
    /\ pc = "apply"
    /\ ret = NoCall
    /\ tasks = << >>

\* _analyze_market_data on the sample
ApplyAnalyzeMarketData ==
    /\ pc = "apply"
    /\ inv.fn = "analyze_market_data"
    /\ \E sentiment \in Sentiments, now \in ClockReadings, timing_raises \in BOOLEAN :
          ret' = [op |-> inv.fn,
                  sentiment |-> sentiment,
                  now |-> now,
                  timing_raises |-> timing_raises,
                  analysis |-> analyze_market_data(
                                   ProfiledVideos(inv.sample, inv.profile),
                                   sentiment, now, timing_raises)]
    /\ pc' = "applied"
    /\ UNCHANGED <<config, server_initialized, startup, youtube_tools, inv>>

\* _categorize_video on a title and a description
ApplyCategorizeVideo ==
    /\ pc = "apply"
    /\ inv.fn = "categorize_video"
    /\ ret' = [op |-> inv.fn, category |-> categorize_video(inv.title, inv.description)]
    /\ pc' = "applied"
    /\ UNCHANGED <<config, server_initialized, startup, youtube_tools, inv>>

\* VideoStats.engagement_rate of the record parsed from the raw statistics,
\* and the search_videos response for a search that found this record alone
ApplyEngagementRate ==
    /\ pc = "apply"
    /\ inv.fn = "engagement_rate"
    /\ LET video == parse_video_item(
                        WithId([RawGood EXCEPT !.statistics = inv.statistics],
                               VideoId(1)))
           results == SearchResult(VideoSearchQuery(EmptyDict), <<video>>, 1)
       IN  ret' = [op |-> inv.fn,
                   stats |-> video.stats,
                   rate |-> engagement_rate(video.stats),
                   result |-> VideoSearchSuccess(EmptyDict, results)]
    /\ pc' = "applied"
    /\ UNCHANGED <<config, server_initialized, startup, youtube_tools, inv>>

\* SystemStatusTool.call on the arguments, and the text call_tool makes of
\* its result; the clock, the uptime and the psutil readings (None: a reading
\* raises) come from the environment
ApplySystemStatus ==
    /\ pc = "apply"
    /\ inv.fn = "system_status"
    /\ \E now \in ClockReadings, uptime \in Uptimes, metrics \in MetricsReadings,
          template_raises \in BOOLEAN :
          LET detailed == Get(inv.arguments, "include_detailed", FALSE)
              result == SystemStatusResult(config, detailed, StatusTimestamp(now),
                                           uptime, metrics)
              returned == CallToolReturn("system_status", Returned(result),
                                         template_raises)
          IN  ret' = [op |-> inv.fn,
                      detailed |-> detailed,
                      timestamp |-> StatusTimestamp(now),
                      uptime |-> uptime,
                      metrics |-> metrics,
                      result |-> result,
                      raised |-> returned.raised,
                      content |-> returned.content]
    /\ pc' = "applied"
    /\ UNCHANGED <<config, server_initialized, startup, youtube_tools, inv>>

\* format_tool_response on a tool name and a success result, and the return
\* of call_tool for that result; template_raises: the template selected raises
ApplyFormatToolResponse ==
    /\ pc = "apply"
    /\ inv.fn = "format_tool_response"
    /\ \E template_raises \in BOOLEAN :
          LET returned == CallToolReturn(inv.tool_name, Returned(inv.result),
                                         template_raises)
          IN  ret' = [op |-> inv.fn,
                      template_raises |-> template_raises,
                      text |-> format_tool_response(inv.tool_name, inv.result,
                                                    template_raises),
                      raised |-> returned.raised,
                      content |-> returned.content]
    /\ pc' = "applied"
    /\ UNCHANGED <<config, server_initialized, startup, youtube_tools, inv>>

NextFunctions ==
    \/ ApplyAnalyzeMarketData /\ UNCHANGED tasks
    \/ ApplyFormatToolResponse /\ UNCHANGED tasks
    \/ ApplySystemStatus /\ UNCHANGED tasks
    \/ ApplyEngagementRate /\ UNCHANGED tasks
    \/ ApplyCategorizeVideo /\ UNCHANGED tasks

SpecFunctions == InitFunctions /\ [][NextFunctions]_vars

\* ---- C12 ----
\* C12: the competition label depends on the number n of distinct channels of
\* the sample only: "High" for n > 30, "Medium" for 15 < n <= 30, "Low" for
\* n <= 15, whatever the number of videos.
C12_CompetitionByChannels ==
    ret.op = "analyze_market_data" =>
        LET n == inv.sample.channels
            overview == ret.analysis.market_overview
        IN  /\ overview.unique_creators = n
            /\ overview.competition_level =
                  (IF n > 30 THEN "High" ELSE IF n > 15 THEN "Medium" ELSE "Low")
            /\ n = 30 => overview.competition_level = "Medium"
            /\ n = 31 => overview.competition_level = "High"
            /\ n = 15 => overview.competition_level = "Low"

\* 40 videos over 10 channels are labelled Low
C12_Witness ==
    /\ ret.op = "analyze_market_data"
    /\ inv.sample = [videos |-> 40, channels |-> 10]
    /\ ret.analysis.market_overview.competition_level = "Low"

\* the categories in the order of their priority, and their keywords
CategoryPriority ==
    <<"education", "technology", "gaming", "music", "news", "sports">>

CategoryKeywords ==
    [education  |-> {"tutorial", "learn", "education", "course"},
     technology |-> {"tech", "programming", "software", "ai"},
     gaming     |-> {"game", "gaming", "play"},
     music      |-> {"music", "song", "album"},
     news       |-> {"news", "breaking", "report"},
     sports     |-> {"sport", "football", "basketball"}]

\* the category has a keyword that occurs in the text
Matches(category, text) ==
    \E w \in CategoryKeywords[category] : Contains(text, w)

\* ---- C13 ----
\* C13: the category of a video is the first of education, technology,
\* gaming, music, news, sports that has a keyword in the lower-cased title
\* and description, and other when none has; a text with an education keyword
\* and a gaming keyword is education.
C13_FirstMatchingCategory ==
    ret.op = "categorize_video" =>
        LET text == Lower(inv.title \o " " \o inv.description)
            matching == {i \in 1..Len(CategoryPriority) :
                            Matches(CategoryPriority[i], text)}
        IN  /\ matching = {} => ret.category = "other"
            /\ matching # {} =>
                  \E i \in matching :
                      /\ \A j \in matching : i <= j
                      /\ ret.category = CategoryPriority[i]
            /\ (Matches("education", text) /\ Matches("gaming", text)) =>
                  ret.category = "education"

\* a title with "tutorial" and "game" is categorized education
C13_Witness ==
    /\ ret.op = "categorize_video"
    /\ inv.title = "Tutorial Game"
    /\ inv.description = ""
    /\ ret.category = "education"

\* ---- C14 ----
\* C14: the engagement rate of a video is 0 when its view count is 0, and
\* (likes + comments) / views otherwise; for 1000 views, 50 likes and 10
\* comments it is 0.06, shown as "6.00%" in the search result.
C14_EngagementRate ==
    ret.op = "engagement_rate" =>
        LET views == ret.stats.view_count
            likes == ret.stats.like_count
            comments == ret.stats.comment_count
            shown == ret.result.videos[1].engagement_rate
        IN  /\ ret.rate.den > 0
            /\ views = 0 => (ret.rate.num = 0 /\ shown = "0.00%")
            /\ views > 0 => ret.rate.num * views = (likes + comments) * ret.rate.den
            /\ (views = 1000 /\ likes = 50 /\ comments = 10) =>
                  /\ ret.rate.num * 100 = 6 * ret.rate.den
                  /\ shown = "6.00%"

\* 1000 views, 50 likes and 10 comments shown as 6.00%
C14_Witness ==
    /\ ret.op = "engagement_rate"
    /\ inv.statistics = [viewCount |-> "1000", likeCount |-> "50", commentCount |-> "10"]
    /\ ret.stats.view_count = 1000
    /\ ret.result.videos[1].engagement_rate = "6.00%"

\* ---- C15 ----
\* C15: the average engagement of a search result without videos is 0, and a
\* search_videos invocation whose search gave no video succeeds with
\* videos_found = 0 and that average, shown as "0.00%".
C15_EmptyAverageIsZero ==
    ( /\ ret.op = "call_tool"
      /\ ret.name = "search_videos"
      /\ ~IsNone(ret.results)
      /\ Len(ret.results.videos) = 0 ) =>
        /\ average_engagement(ret.results.videos).num = 0
        /\ ~ret.raised
        /\ ret.result.success
        /\ ret.result.videos_found = 0
        /\ ret.result.videos = << >>
        /\ ret.result.average_engagement = "0.00%"

\* a search without hits, answered with no video and the average 0.00%
C15_Witness ==
    /\ ret.op = "call_tool"
    /\ ret.name = "search_videos"
    /\ Len(ret.calls) = 1
    /\ ret.calls[1].outcome = "returned"
    /\ ~IsNone(ret.results)
    /\ ret.results.videos = << >>
    /\ ret.result.average_engagement = "0.00%"

\* the values of a record that are strings, for a record of strings
Values(record) == {record[k] : k \in DOMAIN record}

\* every string the status result holds
StatusStrings(status) ==
    {status.server_name, status.version, status.timestamp, status.status,
     status.uptime_seconds, status.configuration.output_directory}
      \cup (IF "api_status" \in DOMAIN status THEN Values(status.api_status) ELSE {})
      \cup (IF "system_metrics" \in DOMAIN status
            THEN Values(status.system_metrics) ELSE {})

\* the two configurations have the same credentials set
SameCredentialsSet(a, b) == \A var \in DOMAIN a : Truthy(a[var]) = Truthy(b[var])

\* ---- C16 ----
\* C16: the system_status result holds no credential value, neither in a
\* field nor in the text returned, and it is the same for every configuration
\* that has the same credentials set, whatever their values (the timestamp
\* and the host readings being equal).
C16_NoCredentialValue ==
    ret.op = "system_status" =>
        LET secrets == Values(config) \ {""}
        IN  /\ \A s \in StatusStrings(ret.result.status), x \in secrets :
                  ~Contains(s, x)
            /\ \A x \in secrets : ~Contains(Text(ret), x)
            /\ \A other \in SecretConfigs :
                  SameCredentialsSet(config, other) =>
                      SystemStatusResult(other, ret.detailed, ret.timestamp,
                                         ret.uptime, ret.metrics) = ret.result

\* a detailed status under a configuration whose three credentials are set,
\* to different values
C16_Witness ==
    /\ ret.op = "system_status"
    /\ ret.detailed
    /\ config["YOUTUBE_API_KEY"] = "secret-2"
    /\ config["FIREBASE_PROJECT_ID"] = "secret-1"
    /\ config["ANTHROPIC_API_KEY"] = "secret-2"
    /\ ret.result.status.api_status.youtube_api = "configured"
    /\ ret.result.status.configuration.youtube_api_configured

\* the keys of the basic status and of its configuration block
BasicStatusKeys ==
    {"server_name", "version", "timestamp", "status", "uptime_seconds", "configuration"}

ConfigurationKeys ==
    {"youtube_api_configured", "firebase_configured", "claude_api_configured",
     "output_directory", "max_videos_per_search"}

\* the completed call ran the system_status handler
StatusCall(r) == r.op = "call_tool" /\ r.handler = "system_status" /\ ~IsNone(r.result)

\* ---- C17 ----
\* C17: when the detailed metrics are asked for and a psutil reading raises,
\* system_status still returns success = true with the basic status and the
\* configuration block, the metrics being an {error: ...} object; when they
\* are not asked for (the default) no reading is made.
C17_MetricsFaultDegrades ==
    /\ StatusCall(ret) =>
          /\ (\E j \in 1..Len(ret.calls) : ret.calls[j].outcome = "raised") =>
                /\ ret.result.success
                /\ BasicStatusKeys \subseteq DOMAIN ret.result.status
                /\ DOMAIN ret.result.status.configuration = ConfigurationKeys
                /\ DOMAIN ret.result.status.system_metrics = {"error"}
                /\ ~StartsWith(Text(ret), "Tool execution failed")
          /\ ~Get(ret.arguments, "include_detailed", FALSE) =>
                /\ ret.calls = << >>
                /\ ret.result.success
                /\ "system_metrics" \notin DOMAIN ret.result.status
    /\ pc = "metrics" => Get(inv.arguments, "include_detailed", FALSE)

\* a detailed status whose psutil reading raised
C17_Witness ==
    /\ StatusCall(ret)
    /\ Len(ret.calls) = 1
    /\ ret.calls[1].outcome = "raised"
    /\ ret.result.success
    /\ ret.result.status.system_metrics = [error |-> "Unable to retrieve system metrics"]

\* the first line of the three templates
TemplateHeading ==
    [search_videos  |-> "**YouTube Video Search Results**",
     analyze_market |-> "**Market Analysis Results**",
     system_status  |-> "**youtube-intelligence System Status**"]

\* ---- C18 ----
\* C18: format_tool_response returns a text in every case: the template of
\* the tool name for search_videos, analyze_market and system_status, a
\* generic dump of the result for another name, and a raw dump of the result
\* when the template raises; call_tool returns that text, never a failure
\* text, for a success result.
C18_FormatNeverMasksSuccess ==
    ret.op = "format_tool_response" =>
        LET name == inv.tool_name
            templated == name \in DOMAIN TemplateHeading
        IN  /\ (templated /\ ~ret.template_raises) =>
                  StartsWith(ret.text, TemplateHeading[name] \o "\n")
            /\ (templated /\ ret.template_raises) =>
                  ret.text = "Tool executed successfully but response formatting failed: "
                                 \o ResultRepr(inv.result)
            /\ ~templated =>
                  ret.text = "Results from " \o name \o ":\n" \o ResultRepr(inv.result)
            /\ ~ret.raised
            /\ ret.content = <<TextContent(ret.text)>>
            /\ ~StartsWith(ret.text, "Tool execution failed")
            /\ ~StartsWith(ret.text, "Error")

\* the template of search_videos raised and the raw dump was returned
C18_Witness ==
    /\ ret.op = "format_tool_response"
    /\ inv.tool_name = "search_videos"
    /\ ret.template_raises
    /\ StartsWith(ret.text, "Tool executed successfully but response formatting failed: ")
    /\ ret.content[1].text = ret.text

(***************************************************************************)
(* The two search tools asked for many videos of a provider that holds     *)
(* many: the provider returns as many hits as it holds, up to the          *)
(* maxResults of the request.                                              *)
(***************************************************************************)
MaxHeld == 150

\* the number of matching videos the provider holds
Holdings == {2, MaxHeld}

\* the sizes asked for, around the two caps
RequestedSizes == {1, 2, 49, 50, 51, 99, 100, 120}

\* the requests: the tool and its arguments
SizedRequests ==
    {[name |-> "search_videos", arguments |-> [query |-> "python"]],
     [name |-> "analyze_market", arguments |-> [topic |-> "ai tools"]]}
      \cup {[name |-> "search_videos",
             arguments |-> [query |-> "python", max_results |-> m]] :
               m \in RequestedSizes}
      \cup {[name |-> "analyze_market",
             arguments |-> [topic |-> "ai tools", sample_size |-> m]] :
               m \in RequestedSizes}

\* a raw record that normalizes, with small counts
RawSmall ==
    [RawGood EXCEPT !.statistics =
        [viewCount |-> "10", likeCount |-> "1", commentCount |-> "0"]]

\* what the provider's videos.list returns for the k-th id of a batch
DetailPatterns == {"all_good", "third_malformed"}

PatternKind(pattern, k) ==
    IF pattern = "third_malformed" /\ k % 3 = 0 THEN RawBadDuration ELSE RawSmall

InitSized ==
    /\ Init
    /\ ~ValidateConfigRaises(config)

\* search().list().execute() of a provider that holds `held` matching videos
SearchReturnsHeld(held, env) ==
    /\ pc = "search"
    /\ SearchResponse(Min(inv.calls[1].maxResults, held), held, env)
    /\ UNCHANGED <<config, server_initialized, startup, youtube_tools>>

\* videos().list().execute() returning a record per id, after the pattern
DetailsReturnPattern(pattern, env) ==
    /\ pc = "details"
    /\ DetailsReturn([k \in 1..Len(Batch(inv.video_ids, inv.i)) |->
                         PatternKind(pattern, k)], env)

NextSized ==
    \/ InitializeServer /\ UNCHANGED tasks
    \/ DeliverResponse /\ UNCHANGED tasks
    \/ \E request \in SizedRequests :
          CallSearchTool(request.name, request.arguments) /\ UNCHANGED tasks
    \/ \E env \in FinishEnvs :
          \/ \E held \in Holdings : SearchReturnsHeld(held, env) /\ UNCHANGED tasks
          \/ \E pattern \in DetailPatterns :
                DetailsReturnPattern(pattern, env) /\ UNCHANGED tasks
          \/ DetailsFails(env) /\ UNCHANGED tasks

SpecSized == InitSized /\ [][NextSized]_vars

\* the completed call ran a search to its end, no external call raised and
\* every raw record returned normalizes
CleanSearch(r) ==
    /\ r.op = "call_tool"
    /\ r.handler \in {"search_videos", "analyze_market"}
    /\ ~IsNone(r.results)
    /\ \A j \in 1..Len(r.calls) : r.calls[j].outcome = "returned"
    /\ \A k \in 1..Len(ReturnedItems(r)) : ~IsNone(parse_video_item(ReturnedItems(r)[k]))

\* the ids asked of videos.list by a completed call, in the order asked
RequestedIds(r) ==
    LET details == SelectSeq(r.calls, LAMBDA c : c.api = "videos.list")
    IN  Flatten([j \in 1..Len(details) |-> details[j].ids])

\* ---- C19 ----
\* C19: for a query with max results N (up to 50 for search_videos, up to 100
\* for analyze_market) and a provider that holds at least N matching videos
\* which all normalize, the fetcher returns N videos, through detail requests
\* of at most 50 ids each that cover the ids once each, in order.
C19_FetcherReturnsRequested ==
    ( /\ CleanSearch(ret)
      /\ ret.results.total_results >= ret.results.query.max_results ) =>
        /\ Len(ret.results.videos) = ret.results.query.max_results
        /\ \A j \in 1..Len(ret.calls) :
              ret.calls[j].api = "videos.list" => Len(ret.calls[j].ids) <= 50
        /\ RequestedIds(ret)
             = [v \in 1..Len(ret.results.videos) |-> ret.results.videos[v].video_id]

\* ---- C20 ----
\* C20: search_videos asks the fetcher for min(requested, 50) videos, 10 when
\* max_results is absent; videos_found is the number of projections returned
\* and is at most 50; total_results is the count the provider reported, which
\* may be larger.
C20_SearchSizeClamped ==
    /\ (pc \in {"search", "details"} /\ inv.name = "search_videos") =>
          LET asked == IF "max_results" \in DOMAIN inv.arguments
                       THEN inv.arguments.max_results ELSE 10
          IN  /\ inv.query.max_results = (IF asked < 50 THEN asked ELSE 50)
              /\ inv.calls[1].maxResults = inv.query.max_results
    /\ ( /\ ret.op = "call_tool"
         /\ ret.handler = "search_videos"
         /\ ~IsNone(ret.results) ) =>
          LET asked == IF "max_results" \in DOMAIN ret.arguments
                       THEN ret.arguments.max_results ELSE 10
          IN  /\ ret.results.query.max_results = (IF asked < 50 THEN asked ELSE 50)
              /\ ret.calls[1].maxResults = ret.results.query.max_results
              /\ ret.result.success
              /\ ret.result.videos_found = Len(ret.result.videos)
              /\ ret.result.videos_found <= ret.results.query.max_results
              /\ ret.result.videos_found <= 50
              /\ ret.result.total_results = ret.results.total_results

\* 60 videos asked of a provider that holds more: 50 found, more reported
C20_Witness ==
    /\ ret.op = "call_tool"
    /\ ret.handler = "search_videos"
    /\ ~IsNone(ret.results)
    /\ "max_results" \in DOMAIN ret.arguments
    /\ ret.arguments.max_results > 50
    /\ ret.result.videos_found = 50
    /\ Len(ret.result.videos) = 50
    /\ ret.result.total_results > 50

\* the four kinds of insight in their fixed order: the place of a text in
\* it, 0 for a text of no kind
InsightKind(text) ==
    IF text = "High variance in video performance - opportunity for viral content"
    THEN 1
    ELSE IF StartsWith(text, "High-engagement videos average ") THEN 2
    ELSE IF text \in {"Low competition - good opportunity to establish authority",
                      "High competition - focus on unique angle or underserved subtopics"}
    THEN 3
    ELSE IF text = "High recent activity - trending topic with immediate opportunity"
    THEN 4
    ELSE 0

InsightTexts(insights) == {insights[i] : i \in 1..Len(insights)}

\* ---- C21 ----
\* C21: the insights of a market analysis are a subsequence of the order
\* high-variance, high-engagement duration, competition advisory, trending,
\* each at most once; the authority advisory is there exactly when the
\* competition level is Low, the differentiation advisory exactly when it is
\* High, none of the two when it is Medium; a fault of the trending
\* comparison drops the trending insight only.
C21_InsightsOrdered ==
    ret.op = "analyze_market_data" =>
        LET insights == ret.analysis.insights
            level == ret.analysis.market_overview.competition_level
            unfaulted == generate_market_insights(
                             ProfiledVideos(inv.sample, inv.profile), level,
                             ret.now, FALSE)
        IN  /\ \A i \in 1..Len(insights) : InsightKind(insights[i]) \in 1..4
            /\ \A i, j \in 1..Len(insights) :
                  i < j => InsightKind(insights[i]) < InsightKind(insights[j])
            /\ "Low competition - good opportunity to establish authority"
                  \in InsightTexts(insights) <=> level = "Low"
            /\ "High competition - focus on unique angle or underserved subtopics"
                  \in InsightTexts(insights) <=> level = "High"
            /\ level = "Medium" =>
                  \A i \in 1..Len(insights) : InsightKind(insights[i]) # 3
            /\ ret.timing_raises =>
                  insights = SelectSeq(unfaulted, LAMBDA text : InsightKind(text) # 4)
            /\ ~ret.timing_raises => insights = unfaulted

\* the trending comparison faults on a sample that would be trending: the
\* three earlier insights are kept
C21_Witness ==
    /\ ret.op = "analyze_market_data"
    /\ ret.timing_raises
    /\ inv.profile = [viral |-> TRUE, engaged |-> TRUE, recent |-> TRUE]
    /\ inv.sample.channels = 2
    /\ Len(ret.analysis.insights) = 3
    /\ ret.analysis.insights[1]
          = "High variance in video performance - opportunity for viral content"
    /\ ret.analysis.insights[2] = "High-engagement videos average 2 minutes duration"
    /\ ret.analysis.insights[3]
          = "Low competition - good opportunity to establish authority"

\* every credential validate_config requires is set
AllCredentialsSet(cfg) ==
    \A i \in 1..Len(REQUIRED_VARS) : cfg[REQUIRED_VARS[i]] # ""

\* ---- C24 ----
\* C24: the server is initialized only if the three credentials are set; a
\* failed validation leaves the flag false and ends startup with the
\* exception; so every system_status result obtained through call_tool
\* reports the three credentials as configured.
C24_InitializedMeansConfigured ==
    /\ server_initialized => AllCredentialsSet(config)
    /\ startup = "running" => server_initialized
    /\ startup = "failed" => ~server_initialized /\ ~AllCredentialsSet(config)
    /\ (startup # "not_started" /\ ~AllCredentialsSet(config)) => startup = "failed"
    /\ StatusCall(ret) =>
          /\ server_initialized
          /\ ret.result.success
          /\ ret.result.status.configuration.youtube_api_configured = TRUE
          /\ ret.result.status.configuration.firebase_configured = TRUE
          /\ ret.result.status.configuration.claude_api_configured = TRUE
          /\ "api_status" \in DOMAIN ret.result.status =>
                \A k \in DOMAIN ret.result.status.api_status :
                    ret.result.status.api_status[k] = "configured"

\* a detailed status obtained through call_tool, with its three flags
C24_Witness ==
    /\ StatusCall(ret)
    /\ "api_status" \in DOMAIN ret.result.status
    /\ ret.result.status.configuration.firebase_configured = TRUE
    /\ ret.result.status.api_status.firebase = "configured"

(***************************************************************************)
(* Several call_tool requests at once: the transport reads requests while  *)
(* others are served, and the event loop runs one handler when it is free. *)
(***************************************************************************)
MaxTasks == 2

\* the requests sent
TaskRequests ==
    {[name |-> "search_videos", arguments |-> [query |-> "python"]],
     [name |-> "system_status", arguments |-> [include_detailed |-> TRUE]],
     [name |-> "system_status", arguments |-> EmptyDict]}

InitTasks ==
    /\ Init
    /\ ~ValidateConfigRaises(config)

\* the transport reads one more request; it waits for the event loop
ReceiveRequest(request) ==
    /\ Len(tasks) < MaxTasks
    /\ tasks' = Append(tasks, [request |-> request, state |-> "pending"])
    /\ UNCHANGED <<config, server_initialized, startup, youtube_tools, pc, inv, ret>>

\* the event loop starts call_tool for the t-th request
DispatchTask(t) ==
    /\ t \in 1..Len(tasks)
    /\ tasks[t].state = "pending"
    /\ LET request == tasks[t].request
       IN  \/ CallToolRejected(request.name, request.arguments)
           \/ CallSearchTool(request.name, request.arguments)
           \/ /\ request.name = "system_status"
              /\ \E now \in ClockReadings, uptime \in Uptimes, template_raises \in BOOLEAN :
                    CallSystemStatus(request.arguments, now, uptime, template_raises)
    /\ tasks' = [tasks EXCEPT ![t].state = "running"]

\* an external call of the handler in progress returns or raises. The
\* outcomes that take least to evaluate come first, for TLC evaluates the
\* ENABLED of the fairness condition in this order
ExternalCallSettles ==
    \/ \E exc \in ProviderErrors : SearchFails(exc)
    \/ \E env \in FinishEnvs :
          \/ DetailsFails(env)
          \/ \E n \in 0..1 : \E total \in TotalResults(n) : SearchReturns(n, total, env)
          \/ \E kinds \in [1..1 -> RawKinds] : DetailsReturn(kinds, env)
    \/ \E metrics \in MetricsReadings :
          \/ MetricsReturn(metrics, TRUE)
          \/ MetricsReturn(metrics, FALSE)

\* the return value of call_tool is written to the client
DeliverTask ==
    /\ DeliverResponse
    /\ \E t \in 1..Len(tasks) :
          /\ tasks[t].state = "running"
          /\ tasks' = [tasks EXCEPT ![t].state = "done"]

NextTasks ==
    \/ InitializeServer /\ UNCHANGED tasks
    \/ \E request \in TaskRequests : ReceiveRequest(request)
    \/ \E t \in 1..MaxTasks : DispatchTask(t)
    \/ UNCHANGED tasks /\ ExternalCallSettles
    \/ DeliverTask

SpecTasks == InitTasks /\ [][NextTasks]_vars

\* every external call that is waited for returns or raises in the end
SpecTasksFair ==
    /\ SpecTasks
    /\ WF_vars(UNCHANGED tasks /\ ExternalCallSettles)

\* the requests whose handler is in progress
Running == {t \in 1..Len(tasks) : tasks[t].state = "running"}

\* the handler in progress waits for an external call
Waiting == pc \in {"search", "details", "metrics"}

\* the state of the handler in progress and what call_tool returned
frame == <<pc, inv, ret>>

\* one handler at most is in progress; it is the handler of the running
\* request; until it has returned it stands at an external call not yet
\* settled
OneHandler ==
    /\ Cardinality(Running) <= 1
    /\ (pc # "idle" \/ ret # NoCall) => Cardinality(Running) = 1
    /\ \A t \in Running :
          /\ pc # "idle" =>
                /\ inv.name = tasks[t].request.name
                /\ inv.arguments = tasks[t].request.arguments
          /\ ret # NoCall =>
                /\ pc = "idle"
                /\ ret.op = "call_tool"
                /\ ret.name = tasks[t].request.name
                /\ ret.arguments = tasks[t].request.arguments
          /\ ret = NoCall =>
                /\ Waiting
                /\ inv.calls[Len(inv.calls)].outcome = "pending"

\* while a handler is in progress no other request is started, and the
\* handler's state changes by its own steps only
NoInterleaving ==
    \A t \in Running :
        /\ \A u \in (1..Len(tasks')) \ {t} : tasks'[u].state # "running"
        /\ frame' # frame => tasks'[t].state \in {"running", "done"}
        /\ tasks'[t].state = "done" => ret' = NoCall

\* ---- C22 ----
\* C22: the process serves one tool call at a time: with several call_tool
\* requests pending, one handler at most is in progress in every state, an
\* invocation runs from dispatch to its response with no step of another
\* invocation in between, and a handler is suspended at external calls only.
C22_OneCallAtATime == []OneHandler /\ [][NoInterleaving]_vars

\* a handler waits for the provider while another request is pending
C22_Witness ==
    /\ Len(tasks) = 2
    /\ tasks[1].state = "pending"
    /\ tasks[2].state = "running"
    /\ pc = "search"
    /\ inv.name = tasks[2].request.name

\* the t-th request has its response
Responded(t) ==
    /\ Len(tasks) >= t
    /\ \/ tasks[t].state = "done"
       \/ tasks[t].state = "running" /\ ret # NoCall

\* the calls made so far for the invocation in progress or just completed
CallsMade == IF pc = "idle" THEN ret.calls ELSE inv.calls

\* a waiting handler moves on only when the call it waits for has returned
\* or raised: there is no timeout and no cancellation
NoWayOutButSettlement ==
    (Waiting /\ frame' # frame) =>
        CallsMade'[Len(inv.calls)].outcome \in {"returned", "raised"}

\* ---- C23 ----
\* C23: every tool invocation produces its response in the end, provided
\* every external call it issues returns or fails in the end; the handler
\* leaves an external call by its return or failure only, so that a call
\* that never returns leaves the invocation pending for ever.
C23_ResponseUnlessHung ==
    /\ \A t \in 1..MaxTasks :
          (Len(tasks) >= t /\ tasks[t].state = "running") ~> Responded(t)
    /\ [][NoWayOutButSettlement]_vars

\* a search whose details request raised has its response
C23_Witness ==
    /\ Len(tasks) >= 1
    /\ tasks[1].state = "running"
    /\ ret # NoCall
    /\ ret.handler = "search_videos"
    /\ Len(ret.calls) = 2
    /\ ret.calls[2].outcome = "raised"

====
